---- MODULE Spec2Model ----
(***************************************************************************)
(* Ingestion pipeline of the optimized Bybit options tracker               *)
(* (src/bybit_options_optimized.py) and the read side of                   *)
(* src/data_reader.py: the bounded batch queue, the periodic flush task,   *)
(* the subscribe/reconnect logic, the shutdown path, the record codec      *)
(* (with the stored mapping of the unified tracker,                        *)
(* src/bybit_options_data_redis.py) and the symbol fetch from the REST API.*)
(***************************************************************************)
EXTENDS Integers, Sequences, FiniteSets, TLC

(* ---------------------------------------------------------------- bounds *)
\* Scaled-down sizes of the program's containers and ceilings, and the
\* bounds on the environment's inputs.
QueueCap == 3        \* deque(maxlen=10000), scaled
batch_size == 2      \* self.batch_size = 200, scaled
chunk_size == 1      \* chunk_size = 100, scaled
ws_max_reconnect_attempts == 2   \* = 10, scaled
MaxMsgs == 4         \* messages delivered to the callback
MaxConns == 3        \* WebSocket objects constructed
MaxFaults == 1       \* pipeline executions that raise
MaxTime == 1         \* clock readings 0..MaxTime
KeyTtl == 2          \* pipe.expire(hash_key, 86400), scaled to clock ticks
MaxPages == 2        \* pages the REST endpoint has for one asset
MaxRequests == 8     \* requests.get calls of one fetch_from_api followed
CacheDuration == 2   \* self.cache_duration_hours = 24, scaled to clock ticks
MaxCacheTime == 3    \* clock readings of the symbol cache 0..MaxCacheTime
ScanCount == 1       \* redis.scan(cursor, match, count=100), scaled
MaxExecTime == 5     \* clock readings of the executor up to MaxExecTime
MaxQueryWrites == 1  \* writes of another client during one query

(* ------------------------------------------------------- program constants *)
ws_reconnect_delay == 10
max_delay == 60
retry_count == 3
cache_ttl == 1
known_option_assets == << "BTC", "ETH", "SOL" >>

(* ------------------------------------------------------------ python values *)
\* Optional values (None / a value) are sequences of length 0 / 1.
None == << >>
Some(x) == << x >>

Min(a, b) == IF a <= b THEN a ELSE b

RECURSIVE Pow2(_)
Pow2(n) == IF n = 0 THEN 1 ELSE 2 * Pow2(n - 1)

EmptyMap == [k \in {} |-> ""]

\* dict.get(key): None when the key is missing.
DictGet(d, k) == IF k \in DOMAIN d THEN Some(d[k]) ELSE None

(* ------------------------------------------------------------------- codec *)
\* float(s) on the strings the model uses: the value, or None for a
\* ValueError.  Floats are modelled by their (integral) value.
ParseFloat(s) ==
  CASE s = "0" -> Some(0)
    [] s = "0.0" -> Some(0)
    [] s = "64000" -> Some(64000)
    [] s = "64000.0" -> Some(64000)
    [] s = "65000" -> Some(65000)
    [] s = "65000.0" -> Some(65000)
    [] s = "120000" -> Some(120000)
    [] s = "120000.0" -> Some(120000)
    [] s = "1.0" -> Some(1)
    [] s = "2.0" -> Some(2)
    [] s = "3.0" -> Some(3)
    [] s = "4.0" -> Some(4)
    [] s = "5.0" -> Some(5)
    [] s = "6.0" -> Some(6)
    [] s = "1" -> Some(1)
    [] s = "2" -> Some(2)
    [] s = "3" -> Some(3)
    [] s = "4" -> Some(4)
    [] s = "5" -> Some(5)
    [] s = "6" -> Some(6)
    [] OTHER -> None

\* int(s): the value, or None for a ValueError ("65000.0" is no int literal).
ParseInt(s) ==
  CASE s = "0" -> Some(0)
    [] s = "1" -> Some(1)
    [] s = "2" -> Some(2)
    [] s = "3" -> Some(3)
    [] s = "4" -> Some(4)
    [] s = "5" -> Some(5)
    [] s = "6" -> Some(6)
    [] s = "64000" -> Some(64000)
    [] s = "65000" -> Some(65000)
    [] s = "120000" -> Some(120000)
    [] OTHER -> None

\* str(x) of a float: the repr with its fractional part.
FloatStr(x) ==
  CASE x = 0 -> "0.0"
    [] x = 1 -> "1.0"
    [] x = 2 -> "2.0"
    [] x = 3 -> "3.0"
    [] x = 4 -> "4.0"
    [] x = 5 -> "5.0"
    [] x = 6 -> "6.0"
    [] x = 64000 -> "64000.0"
    [] x = 65000 -> "65000.0"
    [] x = 120000 -> "120000.0"

\* str(n) of an int.
IntStr(n) ==
  CASE n = 0 -> "0"
    [] n = 1 -> "1"
    [] n = 2 -> "2"
    [] n = 3 -> "3"
    [] n = 4 -> "4"
    [] n = 5 -> "5"
    [] n = 6 -> "6"

\* The float fields: <<stored key, wire name, reader's name>>.
FloatFields ==
  << <<"biv", "bidIv", "bid_iv">>,
     <<"aiv", "askIv", "ask_iv">>,
     <<"lp", "lastPrice", "last_price">>,
     <<"mp", "markPrice", "mark_price">>,
     <<"ip", "indexPrice", "index_price">>,
     <<"miv", "markPriceIv", "mark_iv">>,
     <<"up", "underlyingPrice", "underlying_price">>,
     <<"oi", "openInterest", "open_interest">>,
     <<"d", "delta", "delta">>,
     <<"g", "gamma", "gamma">>,
     <<"v", "vega", "vega">>,
     <<"t", "theta", "theta">>,
     <<"v24", "volume24h", "volume_24h">>,
     <<"t24", "turnover24h", "turnover_24h">> >>

FieldIdx == 1..Len(FloatFields)
KeyOf(i) == FloatFields[i][1]
WireOf(i) == FloatFields[i][2]
NameOf(i) == FloatFields[i][3]

\* A conversion that defaults to zero: 0.0 for None and ''.
ToFloatZeroForMissing(value) ==
  IF value = None \/ value[1] = "" THEN Some(0)
  ELSE ParseFloat(value[1])

\* _to_float(value): None for None, '' and unparseable strings.
ToFloat(value) ==
  IF value = None \/ value[1] = "" THEN None
  ELSE ParseFloat(value[1])

\* The record of handle_message before stringification, without its None
\* entries: 'ts' is an int, every other entry a float.
RecordOf(data, t) ==
  LET present == {i \in FieldIdx : ToFloat(DictGet(data, WireOf(i))) # None}
  IN [k \in {"ts"} \cup {KeyOf(i) : i \in present} |->
        IF k = "ts" THEN t
        ELSE LET i == CHOOSE j \in present : KeyOf(j) = k
             IN ToFloat(DictGet(data, WireOf(i)))[1]]

\* The stringified record under the reader's names instead of the stored keys.
EncodeFullNames(rec) ==
  [n \in {"timestamp"} \cup {NameOf(i) : i \in {j \in FieldIdx : KeyOf(j) \in DOMAIN rec}} |->
     IF n = "timestamp" THEN IntStr(rec["ts"])
     ELSE LET i == CHOOSE j \in FieldIdx : NameOf(j) = n
          IN FloatStr(rec[KeyOf(i)])]

\* {k: str(v) for k, v in record.items() if v is not None}
Encode(rec) ==
  [k \in DOMAIN rec |-> IF k = "ts" THEN IntStr(rec[k]) ELSE FloatStr(rec[k])]

\* The record of UnifiedOptionsTracker.handle_message: every field under the
\* reader's name, 'timestamp' a float, a field without a value None.
UnifiedRecordOf(data, t) ==
  [n \in {"timestamp"} \cup {NameOf(i) : i \in FieldIdx} |->
     IF n = "timestamp" THEN Some(t)
     ELSE LET i == CHOOSE j \in FieldIdx : NameOf(j) = n
          IN ToFloat(DictGet(data, WireOf(i)))]

\* {k: str(v) if v is not None else "" for k, v in record.items()}
UnifiedEncode(rec) ==
  [k \in DOMAIN rec |-> IF rec[k] = None THEN "" ELSE FloatStr(rec[k][1])]

\* data.get(key, 0) followed by float(): float(0) when the key is missing.
GetFloat(data, k) == IF k \in DOMAIN data THEN ParseFloat(data[k]) ELSE Some(0)
GetInt(data, k) == IF k \in DOMAIN data THEN ParseInt(data[k]) ELSE Some(0)

\* The stored key get_option reads for the reader's field of index i.
ReadKeyMarkForLast(i) == IF KeyOf(i) = "lp" THEN "mp" ELSE KeyOf(i)

ReadKey(i) == KeyOf(i)

\* The key expansion of get_option: None when any conversion raises.
DecodeHash(data) ==
  IF GetInt(data, "ts") = None
       \/ \E i \in FieldIdx : GetFloat(data, ReadKey(i)) = None
  THEN None
  ELSE Some([n \in {"timestamp"} \cup {NameOf(i) : i \in FieldIdx} |->
               IF n = "timestamp" THEN GetInt(data, "ts")[1]
               ELSE LET i == CHOOSE j \in FieldIdx : NameOf(j) = n
                    IN GetFloat(data, ReadKey(i))[1]])


(* ------------------------------------------------------------------ inputs *)
S1 == "BTC-29NOV24-100000-C"
S2 == "ETH-29NOV24-3000-P"

\* What get_symbols() may return to track().
SymbolLists == { << >>, <<S1, S2>> }

\* The messages the stream client may hand to the callback: message["data"]
\* is a dict of strings, or is missing, or is no dict at all (a list).
D1 == ("symbol" :> S1) @@ ("lastPrice" :> "65000") @@ ("volume24h" :> "120000")
D2 == ("symbol" :> S1) @@ ("lastPrice" :> "64000") @@ ("bidIv" :> "")
D3 == ("symbol" :> S2) @@ ("lastPrice" :> "0") @@ ("markPrice" :> "abc")
D4 == ("lastPrice" :> "65000")
Messages ==
  { [data |-> Some(D1), shape |-> "dict"], [data |-> Some(D2), shape |-> "dict"],
    [data |-> Some(D3), shape |-> "dict"], [data |-> Some(D4), shape |-> "dict"],
    [data |-> None, shape |-> "dict"], [data |-> Some(D4), shape |-> "list"] }

\* The symbol a message is about (None for a message that names none).
SymbolOf(message) ==
  IF message.data = None \/ message.shape # "dict" THEN None
  ELSE DictGet(message.data[1], "symbol")

\* What the environment does in one run: how many messages it delivers,
\* WebSocket objects it lets the program construct, pipeline executions it
\* fails and clock ticks it makes.  A run is a burst of messages on one
\* connection, or a store outage under light traffic, or an unstable
\* connection under light traffic, or light traffic followed by a silence
\* longer than the TTL of the keys, or a store outage under the lightest
\* traffic (the one followed under fair scheduling).
OutageScenario == [msgs |-> 2, conns |-> 1, faults |-> MaxFaults, ticks |-> MaxTime]

UnstableScenario == [msgs |-> 1, conns |-> MaxConns, faults |-> MaxFaults, ticks |-> 0]

Scenarios ==
  { OutageScenario,
    [msgs |-> MaxMsgs, conns |-> 1, faults |-> 0, ticks |-> 0],
    [msgs |-> 3, conns |-> 1, faults |-> MaxFaults, ticks |-> MaxTime],
    UnstableScenario,
    [msgs |-> 2, conns |-> 1, faults |-> 0, ticks |-> KeyTtl + MaxTime] }

(* ------------------------------------------------------------------- state *)
VARIABLES
  pc,                 \* where track()/main() is
  fpc,                \* where the batch_processor task is
  redis_client,       \* TRUE once init_redis has set self.redis_client
  ws,                 \* self.ws: 0 for None, else the id of the WebSocket object
  nconn,              \* WebSocket objects constructed so far
  open,               \* ids of the WebSocket objects not yet exit()ed
  alive,              \* ids of the WebSocket objects whose connection is up
  subscribed,         \* symbols whose ticker_stream call succeeded on self.ws
  subCalls,           \* the ticker_stream calls issued on self.ws, in order
  symArg,             \* the argument of the pending subscribe_symbols call
  tracked,            \* the symbols track() passed to its subscribe_symbols call
  active_symbols,     \* self.active_symbols
  symbol_chunks,      \* self.symbol_chunks
  ci,                 \* index of the next chunk of the running pass
  ws_reconnect_count, \* self.ws_reconnect_count
  ceilingHit,         \* the counter has exceeded ws_max_reconnect_attempts
  delay,              \* the last backoff delay slept by reconnect_websocket
  slept,              \* seconds slept since the failure a reconnect answers
  depth,              \* subscribe_symbols calls that have not returned
  batch_queue,        \* self.batch_queue
  batch,              \* the batch drained by the running flush tick
  batch_lock,         \* self.batch_lock: "free", or who holds it
  stats,              \* self.stats: messages, errors, batches
  store,              \* Redis: symbol -> the hash option:<symbol>
  storeStats,         \* Redis: the hash "stats"
  expires,            \* Redis: symbol -> the time option:<symbol> expires at (0: no key)
  now,                \* int(time.time())
  env,                \* the environment's budget in this run (see Scenarios)
  nfail,              \* failed pipeline executions so far
  enqLog,             \* ids of the items appended to the queue, in order
  drainLog,           \* ids of the items popped by flush ticks, in order
  evicted,            \* ids of the items the deque dropped on overflow
  evictedAt,          \* where track() was at the last such drop ("" if none)
  written,            \* ids of the items of successfully executed batches
  failed,             \* ids of the items of batches whose execute() raised
  writeLog,           \* the hset commands the server has run, in order
  cpc, cRaw, cTs, cRec, cEnc, cDec,  \* the codec applied to one input
  cUni,               \* the mapping the unified tracker stores for that input
  pcFetch,            \* where fetch_from_api is
  coin,               \* index of the asset of the for loop
  cursor,             \* cursor: 0 for None, p for the cursor of the page after p
  attempt,            \* attempt of the retry loop
  all_tickers,        \* the pages added to all_tickers, as <<coin, cursor>>
  reqCount,           \* <<coin, cursor>> -> requests.get calls made for that page
  nreq,               \* requests.get calls made so far
  cachePc,            \* "on" when the symbol cache is the subject
  cacheFile,          \* the cache file: None, or what json.load finds in it
  cacheNow,           \* datetime.now()
  loaded,             \* None, or the time and the result of the last load_cache
  gotSymbols,         \* None, or the return value of the last get_symbols
  qpc,                \* where the query of the Query Layer is
  qOp,                \* the operation called
  qArg,               \* its argument
  qStore,             \* Redis as the readers find it: symbol -> hash
  qKeys,              \* the keys the operation has enumerated so far
  qCursor,            \* the cursor of its enumeration
  qExamined,          \* keys the server walked in the last enumeration command
  qResult,            \* None, or the outcome of the call
  qWrites,            \* writes of another client so far
  xpc,                \* "on" when the executor's cache is the subject
  xStore,             \* Redis as the executor finds it: symbol -> hash
  cache,              \* self.cache: symbol -> None or the cached result
  last_cache_time,    \* self.last_cache_time
  xNow,               \* time.time()
  xRet,               \* None, or the last get_option_cached call and its outcome
  xWrites             \* writes of the tracker to that store so far

vars == << pc, fpc, redis_client, ws, nconn, open, alive, subscribed, subCalls,
           symArg, tracked, active_symbols, symbol_chunks, ci,
           ws_reconnect_count, ceilingHit, delay, slept, depth,
           batch_queue, batch,
           batch_lock, stats, store, storeStats, expires, now, env, nfail, enqLog, drainLog,
           evicted, evictedAt, written, failed, writeLog, cpc, cRaw, cTs, cRec, cEnc, cDec, cUni,
           pcFetch, coin, cursor, attempt, all_tickers, reqCount, nreq,
           cachePc, cacheFile, cacheNow, loaded, gotSymbols,
           qpc, qOp, qArg, qStore, qKeys, qCursor, qExamined, qResult, qWrites,
           xpc, xStore, cache, last_cache_time, xNow, xRet, xWrites >>

managerVars == << ws, nconn, open, alive, subscribed, subCalls, symArg, tracked,
                  active_symbols, symbol_chunks, ci, ws_reconnect_count,
                  ceilingHit, delay, slept, depth >>
bufferVars == << batch_queue, batch, batch_lock, stats, enqLog, drainLog, evicted,
                 evictedAt, written,
                 failed, writeLog >>
storeVars == << store, storeStats, expires, nfail >>
envVars == << now, env >>
codecVars == << cpc, cRaw, cTs, cRec, cEnc, cDec, cUni >>
fetchVars == << pcFetch, coin, cursor, attempt, all_tickers, reqCount, nreq >>
cacheVars == << cachePc, cacheFile, cacheNow, loaded, gotSymbols >>
queryVars == << qpc, qOp, qArg, qStore, qKeys, qCursor, qExamined, qResult,
               qWrites >>
execVars == << xpc, xStore, cache, last_cache_time, xNow, xRet, xWrites >>
sideVars == << codecVars, fetchVars, cacheVars, queryVars, execVars >>

AllSymbols == {S1, S2}

Ids(items) == { items[i].n : i \in 1..Len(items) }
IdSeq(items) == [ i \in 1..Len(items) |-> items[i].n ]


(* ------------------------------------------------------- queue and store *)
\* deque.append on an unbounded list.
AppendUnbounded(q, x) == Append(q, x)

\* deque(maxlen=QueueCap).append(x): a full deque drops its leftmost item.
DequeAppend(q, x) ==
  IF Len(q) >= QueueCap THEN Append(Tail(q), x) ELSE Append(q, x)

\* The whole queue in one tick.
BatchCountAll(q) == Len(q)

\* batch_size = min(len(self.batch_queue), self.batch_size)
BatchCount(q) == Min(Len(q), batch_size)

\* k times pop() instead of popleft().
TakeFromRight(q, k) == [i \in 1..k |-> q[Len(q) + 1 - i]]

\* [self.batch_queue.popleft() for _ in range(batch_size)]
TakeBatch(q, k) == SubSeq(q, 1, k)

\* The queue after k popleft().
RestAfter(q, k) == SubSeq(q, k + 1, Len(q))

\* Redis HSET key mapping: sets the given fields of the hash and leaves
\* its other fields as they are.
HSet(h, mapping) ==
  [k \in DOMAIN h \cup DOMAIN mapping |->
     IF k \in DOMAIN mapping THEN mapping[k] ELSE h[k]]

\* The hset/expire pairs of a pipeline, applied in order.
RECURSIVE ApplyItems(_, _)
ApplyItems(st, items) ==
  IF items = << >> THEN st
  ELSE ApplyItems([st EXCEPT ![Head(items).symbol] = HSet(@, Head(items).data)],
                  Tail(items))

\* EXPIRE that leaves the TTL of a key that has one as it is.
RECURSIVE ExpireItemsIfNone(_, _, _)
ExpireItemsIfNone(ex, items, t) ==
  IF items = << >> THEN ex
  ELSE ExpireItemsIfNone(
         [ex EXCEPT ![Head(items).symbol] = IF @ = 0 THEN t + KeyTtl ELSE @],
         Tail(items), t)

\* The expire commands of a pipeline run at time t: each key is to expire
\* KeyTtl after t.
RECURSIVE ExpireItems(_, _, _)
ExpireItems(ex, items, t) ==
  IF items = << >> THEN ex
  ELSE ExpireItems([ex EXCEPT ![Head(items).symbol] = t + KeyTtl],
                   Tail(items), t)

\* The keys Redis has expired by time t are gone.
ExpireKeys(st, ex, t) ==
  [s \in AllSymbols |-> IF ex[s] # 0 /\ ex[s] <= t THEN EmptyMap ELSE st[s]]
ExpireTimes(ex, t) ==
  [s \in AllSymbols |-> IF ex[s] # 0 /\ ex[s] <= t THEN 0 ELSE ex[s]]

\* The hset commands of a list of items, as the server logs them.
Writes(items) ==
  [i \in 1..Len(items) |->
     [n |-> items[i].n, symbol |-> items[i].symbol, ts |-> items[i].data["ts"]]]

\* A store without keys.
InitNoKeys == [s \in AllSymbols |-> EmptyMap]

\* One message counted per pipeline, whatever the size of its batch.
StatsIncrOne(ss, count) ==
  [ss EXCEPT !.messages = @ + 1, !.batches = @ + 1]

\* hincrby messages / hset last_update / hincrby batches of one pipeline.
StatsIncr(ss, count) ==
  [ss EXCEPT !.messages = @ + count, !.batches = @ + 1]

\* get_option(symbol) on a store: hgetall, then the key expansion; None for
\* a missing key.  (The result's 'symbol' entry is the argument itself.)
GetOptionIn(st, symbol) ==
  IF DOMAIN st[symbol] = {} THEN None ELSE DecodeHash(st[symbol])

get_option(symbol) == GetOptionIn(store, symbol)

(* ------------------------------------------------------------ subscription *)
SetOf(list) == { list[i] : i \in 1..Len(list) }

\* The lists list(a_set) may produce.
ListsOf(S) ==
  { l \in [1..Cardinality(S) -> S] :
      \A i, j \in 1..Cardinality(S) : l[i] = l[j] => i = j }

\* [list(symbols)[i:i + chunk_size] for i in range(0, len(symbols), chunk_size)]
ChunksOf(list) ==
  [ c \in 1..((Len(list) + chunk_size - 1) \div chunk_size) |->
      SubSeq(list, (c - 1) * chunk_size + 1, Min(c * chunk_size, Len(list))) ]

\* Resubscribing only to the chunks the failed pass had not subscribed.
ResubscribeRemaining ==
  ListsOf(active_symbols \ subscribed)

\* The argument reconnect_websocket passes: list(self.active_symbols).
ResubscribeLists == ListsOf(active_symbols)

\* min(self.ws_reconnect_delay * (2 ** self.ws_reconnect_count), 60)
BackoffDelay(count) == Min(ws_reconnect_delay * Pow2(count), max_delay)

(* -------------------------------------------------------------------- Init *)
\* What an earlier run left in the store.
LeftStore ==
  [s \in AllSymbols |->
     IF s = S2 THEN ("ts" :> "0") @@ ("lp" :> "1.0") ELSE EmptyMap]
LeftStats == [messages |-> 1, batches |-> 1, shutdown |-> TRUE]

InitMain ==
  /\ pc = "start"
  /\ fpc = "none"
  /\ redis_client = FALSE
  /\ ws = 0
  /\ nconn = 0
  /\ open = {}
  /\ alive = {}
  /\ subscribed = {}
  /\ subCalls = << >>
  /\ symArg = << >>
  /\ tracked = {}
  /\ active_symbols = {}
  /\ symbol_chunks = << >>
  /\ ci = 1
  /\ ws_reconnect_count = 0
  /\ ceilingHit = FALSE
  /\ delay = 0
  /\ slept = 0
  /\ depth = 0
  /\ batch_queue = << >>
  /\ batch = << >>
  /\ batch_lock = "free"
  /\ stats = [messages |-> 0, errors |-> 0, batches |-> 0]
  /\ store = LeftStore
  /\ storeStats = LeftStats
  /\ expires = [s \in AllSymbols |-> IF s = S2 THEN KeyTtl ELSE 0]
  /\ now = 0
  /\ env \in Scenarios
  /\ nfail = 0
  /\ enqLog = << >>
  /\ drainLog = << >>
  /\ evicted = {}
  /\ evictedAt = ""
  /\ written = {}
  /\ failed = {}
  /\ writeLog = << >>

\* The pages of the REST endpoint: <<index of the asset, cursor>>.
Pages == (1..Len(known_option_assets)) \X (0..(MaxPages - 1))

InitCodecOff ==
  /\ cpc = "off"
  /\ cRaw = EmptyMap
  /\ cTs = 0
  /\ cRec = EmptyMap
  /\ cEnc = EmptyMap
  /\ cDec = None
  /\ cUni = EmptyMap

InitFetchOff ==
  /\ pcFetch = "off"
  /\ coin = 1
  /\ cursor = 0
  /\ attempt = 0
  /\ all_tickers = << >>
  /\ reqCount = [pg \in Pages |-> 0]
  /\ nreq = 0

InitCacheOff ==
  /\ cachePc = "off"
  /\ cacheFile = None
  /\ cacheNow = 0
  /\ loaded = None
  /\ gotSymbols = None

InitQueryOff ==
  /\ qpc = "off"
  /\ qOp = ""
  /\ qArg = None
  /\ qStore = [s \in AllSymbols |-> EmptyMap]
  /\ qKeys = {}
  /\ qCursor = 0
  /\ qExamined = 0
  /\ qResult = None
  /\ qWrites = 0

\* EfficientTradeExecutor.__init__: an empty cache, last_cache_time 0.
InitExecOff ==
  /\ xpc = "off"
  /\ xStore = [s \in AllSymbols |-> EmptyMap]
  /\ cache = [s \in AllSymbols |-> None]
  /\ last_cache_time = 0
  /\ xNow = 0
  /\ xRet = None
  /\ xWrites = 0

Init ==
  /\ InitMain
  /\ InitCodecOff
  /\ InitFetchOff
  /\ InitCacheOff
  /\ InitQueryOff
  /\ InitExecOff


(* ------------------------------------------------------- track(): startup *)
Running == pc \in {"connect", "subscribing", "reconnect", "live"}

\* track() calling clear_database whatever init_redis returned.
StartTrackClearFirst ==
  /\ pc = "start"
  /\ \E up \in BOOLEAN, syms \in SymbolLists :
       /\ redis_client' = TRUE
       /\ store' = [s \in AllSymbols |-> EmptyMap]
       /\ expires' = [s \in AllSymbols |-> 0]
       /\ storeStats' = [messages |-> 0, batches |-> 0, shutdown |-> FALSE]
       /\ IF ~up
          THEN /\ pc' = "returned"
               /\ UNCHANGED << fpc, symArg, tracked >>
          ELSE IF syms = << >>
          THEN /\ pc' = "returned"
               /\ fpc' = "cancelled"
               /\ UNCHANGED << symArg, tracked >>
          ELSE /\ pc' = "connect"
               /\ fpc' = "idle"
               /\ symArg' = syms
               /\ tracked' = SetOf(syms)
  /\ UNCHANGED << ws, nconn, open, alive, subscribed, subCalls, active_symbols,
                  symbol_chunks, ci, ws_reconnect_count, ceilingHit, delay, slept,
                  depth,
                  now, env, nfail >>
  /\ UNCHANGED bufferVars
  /\ UNCHANGED sideVars

\* track() up to its subscribe_symbols call: init_redis (which creates the
\* batch_processor task), clear_database, get_symbols.
StartTrack ==
  /\ pc = "start"
  /\ \E up \in BOOLEAN, syms \in SymbolLists :
       /\ redis_client' = TRUE
       /\ IF ~up
          THEN /\ pc' = "returned"
               /\ UNCHANGED << fpc, store, storeStats, expires, symArg, tracked >>
          ELSE /\ store' = [s \in AllSymbols |-> EmptyMap]
               /\ expires' = [s \in AllSymbols |-> 0]
               /\ storeStats' = [messages |-> 0, batches |-> 0, shutdown |-> FALSE]
               /\ IF syms = << >>
                  THEN /\ pc' = "returned"
                       /\ fpc' = "cancelled"
                       /\ UNCHANGED << symArg, tracked >>
                  ELSE /\ pc' = "connect"
                       /\ fpc' = "idle"
                       /\ symArg' = syms
                       /\ tracked' = SetOf(syms)
  /\ UNCHANGED << ws, nconn, open, alive, subscribed, subCalls, active_symbols,
                  symbol_chunks, ci, ws_reconnect_count, ceilingHit, delay, slept,
                  depth,
                  now, env, nfail >>
  /\ UNCHANGED bufferVars
  /\ UNCHANGED sideVars

(* ------------------------------------------------------- subscribe_symbols *)
\* The head of subscribe_symbols: a new WebSocket, self.active_symbols and
\* self.symbol_chunks.
ConnectOk ==
  /\ pc = "connect"
  /\ nconn < env.conns
  /\ nconn' = nconn + 1
  /\ ws' = nconn + 1
  /\ open' = open \cup {nconn + 1}
  /\ alive' = alive \cup {nconn + 1}
  /\ active_symbols' = SetOf(symArg)
  /\ symbol_chunks' = ChunksOf(symArg)
  /\ ci' = 1
  /\ subCalls' = << >>
  /\ subscribed' = {}
  /\ pc' = "subscribing"
  /\ depth' = depth + 1
  /\ UNCHANGED << fpc, redis_client, symArg, tracked, ws_reconnect_count,
                  ceilingHit, delay, slept, now, env >>
  /\ UNCHANGED bufferVars
  /\ UNCHANGED storeVars
  /\ UNCHANGED sideVars

\* The WebSocket constructor raises: track()'s own call lets the exception
\* out of track(); reconnect_websocket catches it and returns.
ConnectFail ==
  /\ pc = "connect"
  /\ IF ws = 0
     THEN pc' = "crashed" /\ fpc' = "cancelled"
     ELSE pc' = "live" /\ fpc' = fpc
  /\ depth' = 0
  /\ UNCHANGED << redis_client, now, env >>
  /\ UNCHANGED << ws, nconn, open, alive, subscribed, subCalls, symArg, tracked,
                  active_symbols, symbol_chunks, ci, ws_reconnect_count,
                  ceilingHit, delay, slept >>
  /\ UNCHANGED bufferVars
  /\ UNCHANGED storeVars
  /\ UNCHANGED sideVars

\* One ticker_stream call of the loop over self.symbol_chunks succeeds.
SubscribeOk ==
  /\ pc = "subscribing"
  /\ ci <= Len(symbol_chunks)
  /\ ws \in alive
  /\ subCalls' = Append(subCalls, symbol_chunks[ci])
  /\ subscribed' = subscribed \cup SetOf(symbol_chunks[ci])
  /\ ci' = ci + 1
  /\ UNCHANGED << pc, fpc, redis_client, ws, nconn, open, alive, symArg, tracked,
                  active_symbols, symbol_chunks, ws_reconnect_count, ceilingHit,
                  delay, slept, depth, now, env >>
  /\ UNCHANGED bufferVars
  /\ UNCHANGED storeVars
  /\ UNCHANGED sideVars

\* One ticker_stream call raises and the except branch reconnects whatever
\* the counter is.
SubscribeFailAlwaysReconnect ==
  /\ pc = "subscribing"
  /\ ci <= Len(symbol_chunks)
  /\ subCalls' = Append(subCalls, symbol_chunks[ci])
  /\ ws_reconnect_count' = ws_reconnect_count + 1
  /\ ceilingHit' = (ceilingHit \/ ws_reconnect_count + 1 > ws_max_reconnect_attempts)
  /\ IF TRUE
     THEN \* time.sleep(self.ws_reconnect_delay); self.reconnect_websocket()
          pc' = "reconnect" /\ ci' = ci /\ slept' = ws_reconnect_delay
     ELSE pc' = pc /\ ci' = ci + 1 /\ slept' = slept
  /\ UNCHANGED << fpc, redis_client, ws, nconn, open, alive, subscribed, symArg,
                  tracked, active_symbols, symbol_chunks, delay, depth, now,
                  env >>
  /\ UNCHANGED bufferVars
  /\ UNCHANGED storeVars
  /\ UNCHANGED sideVars

\* One ticker_stream call raises: the except branch of the loop.
SubscribeFail ==
  /\ pc = "subscribing"
  /\ ci <= Len(symbol_chunks)
  /\ subCalls' = Append(subCalls, symbol_chunks[ci])
  /\ ws_reconnect_count' = ws_reconnect_count + 1
  /\ ceilingHit' = (ceilingHit \/ ws_reconnect_count + 1 > ws_max_reconnect_attempts)
  /\ IF ws_reconnect_count + 1 < ws_max_reconnect_attempts
     THEN \* time.sleep(self.ws_reconnect_delay); self.reconnect_websocket()
          pc' = "reconnect" /\ ci' = ci /\ slept' = ws_reconnect_delay
     ELSE pc' = pc /\ ci' = ci + 1 /\ slept' = slept
  /\ UNCHANGED << fpc, redis_client, ws, nconn, open, alive, subscribed, symArg,
                  tracked, active_symbols, symbol_chunks, delay, depth, now,
                  env >>
  /\ UNCHANGED bufferVars
  /\ UNCHANGED storeVars
  /\ UNCHANGED sideVars

\* The loop is over: the counter is reset and subscribe_symbols returns, to
\* track() or through reconnect_websocket to track()'s loop.
PassEnd ==
  /\ pc = "subscribing"
  /\ ci > Len(symbol_chunks)
  /\ ws_reconnect_count' = 0
  /\ pc' = "live"
  /\ depth' = 0
  /\ UNCHANGED << fpc, redis_client, ws, nconn, open, alive, subscribed, subCalls,
                  symArg, tracked, active_symbols, symbol_chunks, ci, ceilingHit,
                  delay, slept, now, env >>
  /\ UNCHANGED bufferVars
  /\ UNCHANGED storeVars
  /\ UNCHANGED sideVars

\* reconnect_websocket without the exit() of the old WebSocket.
ReconnectKeepOld ==
  /\ pc = "reconnect"
  /\ delay' = BackoffDelay(ws_reconnect_count)
  /\ slept' = slept + BackoffDelay(ws_reconnect_count)
  /\ \E l \in ResubscribeLists : symArg' = l
  /\ pc' = "connect"
  /\ UNCHANGED << fpc, redis_client, ws, nconn, open, alive, subscribed, subCalls,
                  tracked, active_symbols, symbol_chunks, ci, ws_reconnect_count,
                  ceilingHit, depth, now, env >>
  /\ UNCHANGED bufferVars
  /\ UNCHANGED storeVars
  /\ UNCHANGED sideVars

\* reconnect_websocket up to its subscribe_symbols call: exit() of the old
\* WebSocket, the backoff sleep, list(self.active_symbols).
Reconnect ==
  /\ pc = "reconnect"
  /\ open' = open \ {ws}
  /\ alive' = alive \ {ws}
  /\ delay' = BackoffDelay(ws_reconnect_count)
  /\ slept' = slept + BackoffDelay(ws_reconnect_count)
  /\ \E l \in ResubscribeLists : symArg' = l
  /\ pc' = "connect"
  /\ UNCHANGED << fpc, redis_client, ws, nconn, subscribed, subCalls, tracked,
                  active_symbols, symbol_chunks, ci, ws_reconnect_count,
                  ceilingHit, depth, now, env >>
  /\ UNCHANGED bufferVars
  /\ UNCHANGED storeVars
  /\ UNCHANGED sideVars

\* track()'s loop finds the WebSocket not connected.  The loop runs on the
\* event loop, so not inside a flush tick.
LivenessCheck ==
  /\ pc = "live"
  /\ fpc \notin {"draining", "writing"}
  /\ ws # 0
  /\ ws \notin alive
  /\ pc' = "reconnect"
  /\ slept' = 0
  /\ UNCHANGED << fpc, redis_client, now, env >>
  /\ UNCHANGED << ws, nconn, open, alive, subscribed, subCalls, symArg, tracked,
                  active_symbols, symbol_chunks, ci, ws_reconnect_count,
                  ceilingHit, delay, depth >>
  /\ UNCHANGED bufferVars
  /\ UNCHANGED storeVars
  /\ UNCHANGED sideVars

\* The network drops the connection.
Drop ==
  /\ Running
  /\ ws \in alive
  /\ alive' = alive \ {ws}
  /\ UNCHANGED << pc, fpc, redis_client, ws, nconn, open, subscribed, subCalls,
                  symArg, tracked, active_symbols, symbol_chunks, ci,
                  ws_reconnect_count, ceilingHit, delay, slept, depth, now,
                  env >>
  /\ UNCHANGED bufferVars
  /\ UNCHANGED storeVars
  /\ UNCHANGED sideVars


(* ---------------------------------------------------------- handle_message *)
\* The callback writing its record to the store as well as queueing it.
HandleMessageWriteThrough ==
  /\ stats.messages < env.msgs
  /\ ws \in open
  /\ ws \in alive
  /\ subscribed # {}
  /\ \E message \in Messages :
       /\ SymbolOf(message) # None => SymbolOf(message)[1] \in subscribed
       /\ IF message.shape # "dict"
          THEN \* data.get raises: the except branch
               /\ stats' = [stats EXCEPT !.messages = @ + 1, !.errors = @ + 1]
               /\ UNCHANGED << batch_queue, enqLog, evicted, evictedAt, store >>
          ELSE IF message.data = None \/ SymbolOf(message) = None
          THEN /\ stats' = [stats EXCEPT !.messages = @ + 1]
               /\ UNCHANGED << batch_queue, enqLog, evicted, evictedAt, store >>
          ELSE LET rec == RecordOf(message.data[1], now)
                   item == [n |-> stats.messages + 1,
                            symbol |-> SymbolOf(message)[1],
                            data |-> Encode(rec),
                            rec |-> rec]
               IN /\ batch_lock = "free"     \* with self.batch_lock:
                  /\ stats' = [stats EXCEPT !.messages = @ + 1]
                  /\ batch_queue' = DequeAppend(batch_queue, item)
                  /\ store' = ApplyItems(store, << item >>)
                  /\ enqLog' = Append(enqLog, item.n)
                  /\ evicted' = evicted \cup (Ids(batch_queue) \ Ids(batch_queue'))
                  /\ evictedAt' = IF Ids(batch_queue) \subseteq Ids(batch_queue') THEN evictedAt
                                   ELSE pc
  /\ UNCHANGED << pc, fpc, redis_client, now, env, batch, batch_lock, drainLog,
                  written, failed, writeLog >>
  /\ UNCHANGED managerVars
  /\ UNCHANGED << storeStats, expires, nfail >>
  /\ UNCHANGED sideVars

\* The callback, on the stream client's thread.  A message is delivered on
\* the open, connected WebSocket, for a symbol it is subscribed to.  An
\* item's n (the message count when it was queued) and rec (the record
\* before stringification) are kept for reference only: the program queues
\* symbol and data.
HandleMessage ==
  /\ stats.messages < env.msgs
  /\ ws \in open
  /\ ws \in alive
  /\ subscribed # {}
  /\ \E message \in Messages :
       /\ SymbolOf(message) # None => SymbolOf(message)[1] \in subscribed
       /\ IF message.shape # "dict"
          THEN \* data.get raises: the except branch
               /\ stats' = [stats EXCEPT !.messages = @ + 1, !.errors = @ + 1]
               /\ UNCHANGED << batch_queue, enqLog, evicted, evictedAt >>
          ELSE IF message.data = None \/ SymbolOf(message) = None
          THEN /\ stats' = [stats EXCEPT !.messages = @ + 1]
               /\ UNCHANGED << batch_queue, enqLog, evicted, evictedAt >>
          ELSE LET rec == RecordOf(message.data[1], now)
                   item == [n |-> stats.messages + 1,
                            symbol |-> SymbolOf(message)[1],
                            data |-> Encode(rec),
                            rec |-> rec]
               IN /\ batch_lock = "free"     \* with self.batch_lock:
                  /\ stats' = [stats EXCEPT !.messages = @ + 1]
                  /\ batch_queue' = DequeAppend(batch_queue, item)
                  /\ enqLog' = Append(enqLog, item.n)
                  /\ evicted' = evicted \cup (Ids(batch_queue) \ Ids(batch_queue'))
                  /\ evictedAt' = IF Ids(batch_queue) \subseteq Ids(batch_queue') THEN evictedAt
                                   ELSE pc
  /\ UNCHANGED << pc, fpc, redis_client, now, env, batch, batch_lock, drainLog,
                  written, failed, writeLog >>
  /\ UNCHANGED managerVars
  /\ UNCHANGED storeVars
  /\ UNCHANGED sideVars

(* --------------------------------------------------------- batch_processor *)
\* A tick begins on a thread of its own, wherever track() is.
FlushAcquireAnytime ==
  /\ Running
  /\ fpc = "idle"
  /\ batch_lock = "free"
  /\ batch_lock' = "processor"
  /\ fpc' = "draining"
  /\ UNCHANGED << pc, redis_client, now, env, batch_queue, batch, stats, enqLog,
                  drainLog, evicted, evictedAt, written, failed, writeLog >>
  /\ UNCHANGED managerVars
  /\ UNCHANGED storeVars
  /\ UNCHANGED sideVars

\* A tick begins: the task, which runs when track() awaits its sleep, enters
\* `with self.batch_lock:`.
FlushAcquire ==
  /\ pc = "live"
  /\ fpc = "idle"
  /\ batch_lock = "free"
  /\ batch_lock' = "processor"
  /\ fpc' = "draining"
  /\ UNCHANGED << pc, redis_client, now, env, batch_queue, batch, stats, enqLog,
                  drainLog, evicted, evictedAt, written, failed, writeLog >>
  /\ UNCHANGED managerVars
  /\ UNCHANGED storeVars
  /\ UNCHANGED sideVars

\* The tick finds the queue empty and still executes a pipeline with the
\* stats commands.
FlushEmptyWritesStats ==
  /\ fpc = "draining"
  /\ batch_queue = << >>
  /\ batch_lock' = "free"
  /\ fpc' = "idle"
  /\ storeStats' = StatsIncr(storeStats, 0)
  /\ stats' = [stats EXCEPT !.batches = @ + 1]
  /\ UNCHANGED << pc, redis_client, now, env, batch_queue, batch, enqLog,
                  drainLog, evicted, evictedAt, written, failed, writeLog >>
  /\ UNCHANGED managerVars
  /\ UNCHANGED << store, expires, nfail >>
  /\ UNCHANGED sideVars

\* The tick finds the queue empty: `continue` leaves the with block.
FlushEmpty ==
  /\ fpc = "draining"
  /\ batch_queue = << >>
  /\ batch_lock' = "free"
  /\ fpc' = "idle"
  /\ UNCHANGED << pc, redis_client, now, env, batch_queue, batch, stats, enqLog,
                  drainLog, evicted, evictedAt, written, failed, writeLog >>
  /\ UNCHANGED managerVars
  /\ UNCHANGED storeVars
  /\ UNCHANGED sideVars

\* The tick pops its batch and goes on to the write with the lock still held.
FlushDrainHoldingLock ==
  /\ fpc = "draining"
  /\ batch_queue # << >>
  /\ LET k == BatchCount(batch_queue)
     IN /\ batch' = TakeBatch(batch_queue, k)
        /\ batch_queue' = RestAfter(batch_queue, k)
        /\ drainLog' = drainLog \o IdSeq(batch')
  /\ fpc' = "writing"
  /\ UNCHANGED << pc, redis_client, now, env, batch_lock, stats, enqLog, evicted, evictedAt,
                  written, failed, writeLog >>
  /\ UNCHANGED managerVars
  /\ UNCHANGED storeVars
  /\ UNCHANGED sideVars

\* The tick finds the queue non-empty, pops a batch and leaves the with
\* block; the pipeline is built and executed after it.
FlushDrain ==
  /\ fpc = "draining"
  /\ batch_queue # << >>
  /\ LET k == BatchCount(batch_queue)
     IN /\ batch' = TakeBatch(batch_queue, k)
        /\ batch_queue' = RestAfter(batch_queue, k)
        /\ drainLog' = drainLog \o IdSeq(batch')
  /\ batch_lock' = "free"
  /\ fpc' = "writing"
  /\ UNCHANGED << pc, redis_client, now, env, stats, enqLog, evicted, evictedAt, written, failed,
                  writeLog >>
  /\ UNCHANGED managerVars
  /\ UNCHANGED storeVars
  /\ UNCHANGED sideVars

\* pipe.execute() succeeds.
FlushWriteOk ==
  /\ fpc = "writing"
  /\ store' = ApplyItems(store, batch)
  /\ expires' = ExpireItems(expires, batch, now)
  /\ writeLog' = writeLog \o Writes(batch)
  /\ storeStats' = StatsIncr(storeStats, Len(batch))
  /\ stats' = [stats EXCEPT !.batches = @ + 1]
  /\ written' = written \cup Ids(batch)
  /\ batch' = << >>
  /\ fpc' = "idle"
  /\ UNCHANGED << pc, redis_client, now, env, nfail, batch_queue, batch_lock,
                  enqLog, drainLog, evicted, evictedAt, failed >>
  /\ UNCHANGED managerVars
  /\ UNCHANGED sideVars

\* The failed tick puts its batch back at the front of the queue.
FlushWriteFailRequeue ==
  /\ fpc = "writing"
  /\ nfail < env.faults
  /\ nfail' = nfail + 1
  /\ failed' = failed \cup Ids(batch)
  /\ batch_queue' = batch \o batch_queue
  /\ batch' = << >>
  /\ fpc' = "idle"
  /\ UNCHANGED << pc, redis_client, now, env, stats, store, storeStats, expires,
                  batch_lock, enqLog, drainLog, evicted, evictedAt, written, writeLog >>
  /\ UNCHANGED managerVars
  /\ UNCHANGED sideVars

\* pipe.execute() raises and the exception ends the task.
FlushWriteFailEndsTask ==
  /\ fpc = "writing"
  /\ nfail < env.faults
  /\ nfail' = nfail + 1
  /\ \E k \in 0..(Len(batch) + 1) :
       /\ store' = ApplyItems(store, SubSeq(batch, 1, Min(k, Len(batch))))
       /\ expires' = ExpireItems(expires, SubSeq(batch, 1, Min(k, Len(batch))), now)
       /\ writeLog' = writeLog \o Writes(SubSeq(batch, 1, Min(k, Len(batch))))
       /\ storeStats' = IF k > Len(batch) THEN StatsIncr(storeStats, Len(batch))
                        ELSE storeStats
  /\ failed' = failed \cup Ids(batch)
  /\ batch' = << >>
  /\ fpc' = "cancelled"
  /\ UNCHANGED << pc, redis_client, now, env, stats, batch_queue, batch_lock,
                  enqLog, drainLog, evicted, evictedAt, written >>
  /\ UNCHANGED managerVars
  /\ UNCHANGED sideVars

\* pipe.execute() raises: the server has run a prefix of the pipeline's
\* commands (k items; all items and the stats commands for k = Len + 1).
\* The except branch logs; the batch is gone with the iteration.
FlushWriteFail ==
  /\ fpc = "writing"
  /\ nfail < env.faults
  /\ nfail' = nfail + 1
  /\ \E k \in 0..(Len(batch) + 1) :
       /\ store' = ApplyItems(store, SubSeq(batch, 1, Min(k, Len(batch))))
       /\ expires' = ExpireItems(expires, SubSeq(batch, 1, Min(k, Len(batch))), now)
       /\ writeLog' = writeLog \o Writes(SubSeq(batch, 1, Min(k, Len(batch))))
       /\ storeStats' = IF k > Len(batch) THEN StatsIncr(storeStats, Len(batch))
                        ELSE storeStats
  /\ failed' = failed \cup Ids(batch)
  /\ batch' = << >>
  /\ fpc' = "idle"
  /\ UNCHANGED << pc, redis_client, now, env, stats, batch_queue, batch_lock,
                  enqLog, drainLog, evicted, evictedAt, written >>
  /\ UNCHANGED managerVars
  /\ UNCHANGED sideVars

(* ---------------------------------------------------------------- shutdown *)
\* KeyboardInterrupt: asyncio.run cancels the tasks and main() goes on to
\* cleanup().
Interrupt ==
  /\ Running
  /\ fpc \notin {"draining", "writing"}
  /\ pc' = "interrupted"
  /\ fpc' = "cancelled"
  /\ UNCHANGED << redis_client, now, env >>
  /\ UNCHANGED managerVars
  /\ UNCHANGED bufferVars
  /\ UNCHANGED storeVars
  /\ UNCHANGED sideVars

\* cleanup(): counts the remaining items, writes the shutdown fields of the
\* stats hash, exits the WebSocket.
Cleanup ==
  /\ pc = "interrupted"
  /\ storeStats' = IF redis_client THEN [storeStats EXCEPT !.shutdown = TRUE]
                   ELSE storeStats
  /\ open' = open \ {ws}
  /\ alive' = alive \ {ws}
  /\ pc' = "exited"
  /\ UNCHANGED << fpc, redis_client, now, env, store, expires, nfail, ws, nconn, subscribed,
                  subCalls, symArg, tracked, active_symbols, symbol_chunks, ci,
                  ws_reconnect_count, ceilingHit, delay, slept, depth >>
  /\ UNCHANGED bufferVars
  /\ UNCHANGED sideVars

\* time.time() moves on, and Redis drops the keys whose TTL has run out.
Tick ==
  /\ Running
  /\ now < env.ticks
  /\ now' = now + 1
  /\ store' = ExpireKeys(store, expires, now + 1)
  /\ expires' = ExpireTimes(expires, now + 1)
  /\ UNCHANGED << pc, fpc, redis_client, env, storeStats, nfail >>
  /\ UNCHANGED managerVars
  /\ UNCHANGED bufferVars
  /\ UNCHANGED sideVars

Next ==
  \/ StartTrack
  \/ ConnectOk
  \/ ConnectFail
  \/ SubscribeOk
  \/ SubscribeFail
  \/ PassEnd
  \/ Reconnect
  \/ LivenessCheck
  \/ Drop
  \/ HandleMessage
  \/ FlushAcquire
  \/ FlushEmpty
  \/ FlushDrain
  \/ FlushWriteOk
  \/ FlushWriteFail
  \/ Interrupt
  \/ Cleanup
  \/ Tick

Spec == Init /\ [][Next]_vars

\* The synchronous code of track(), subscribe_symbols and
\* reconnect_websocket goes on to its next statement.
MainStep ==
  \/ ConnectOk
  \/ ConnectFail
  \/ SubscribeOk
  \/ SubscribeFail
  \/ PassEnd
  \/ Reconnect

\* pipe.execute() returns or raises.
FlushWriteEnds ==
  \/ FlushWriteOk
  \/ FlushWriteFail

\* The program under its scheduling: synchronous code proceeds; the event
\* loop runs the batch_processor task when its sleep is over and track()
\* awaits its own, again and again; the locked section and pipe.execute()
\* end.  Interrupts, messages, drops and the clock are left to themselves.
InitLive ==
  /\ Init
  /\ env \in {OutageScenario, UnstableScenario}

SpecLive ==
  /\ InitLive
  /\ [][Next]_vars
  /\ WF_vars(MainStep)
  /\ SF_vars(FlushAcquire)
  /\ WF_vars(FlushEmpty)
  /\ WF_vars(FlushDrain)
  /\ WF_vars(FlushWriteEnds)


(* ------------------------------------------------------- the codec alone *)
\* The wire dicts the codec is applied to: any subset of three of the
\* optional fields, each with an empty, an unparseable or a numeric string.
CodecWires == {"lastPrice", "markPrice", "volume24h"}
CodecValues == {"", "abc", "0", "65000", "120000"}
CodecInputs ==
  UNION { [W -> CodecValues] : W \in SUBSET CodecWires }

InitCodec ==
  /\ InitMain
  /\ cpc = "raw"
  /\ cRaw \in CodecInputs
  /\ cTs \in 0..MaxTime
  /\ cRec = EmptyMap
  /\ cEnc = EmptyMap
  /\ cDec = None
  /\ cUni = EmptyMap
  /\ InitFetchOff
  /\ InitCacheOff
  /\ InitQueryOff
  /\ InitExecOff

mainVars == << pc, fpc, redis_client, managerVars, bufferVars, storeVars,
               envVars >>

\* handle_message builds the record of a message.
CodecRecord ==
  /\ cpc = "raw"
  /\ cRec' = RecordOf(cRaw, cTs)
  /\ cpc' = "record"
  /\ UNCHANGED << cRaw, cTs, cEnc, cDec, cUni, mainVars, fetchVars, cacheVars, queryVars,
                  execVars >>

\* handle_message stringifies it.
CodecEncode ==
  /\ cpc = "record"
  /\ cEnc' = Encode(cRec)
  /\ cpc' = "encoded"
  /\ UNCHANGED << cRaw, cTs, cRec, cDec, cUni, mainVars, fetchVars, cacheVars, queryVars,
                  execVars >>

\* get_option expands the stored hash.
CodecDecode ==
  /\ cpc = "encoded"
  /\ cDec' = DecodeHash(cEnc)
  /\ cpc' = "decoded"
  /\ UNCHANGED << cRaw, cTs, cRec, cEnc, cUni, mainVars, fetchVars, cacheVars, queryVars,
                  execVars >>

\* The unified tracker's handle_message builds and stringifies the mapping
\* it stores for the same message.
CodecUnified ==
  /\ cpc = "decoded"
  /\ cUni' = UnifiedEncode(UnifiedRecordOf(cRaw, cTs))
  /\ cpc' = "unified"
  /\ UNCHANGED << cRaw, cTs, cRec, cEnc, cDec, mainVars, fetchVars, cacheVars, queryVars,
                  execVars >>

NextCodec ==
  \/ CodecRecord
  \/ CodecEncode
  \/ CodecDecode
  \/ CodecUnified

SpecCodec == InitCodec /\ [][NextCodec]_vars

(* ------------------------------------------------- fetch_from_api alone *)
InitFetch ==
  /\ InitMain
  /\ InitCodecOff
  /\ pcFetch = "request"
  /\ coin = 1
  /\ cursor = 0
  /\ attempt = 0
  /\ all_tickers = << >>
  /\ reqCount = [pg \in Pages |-> 0]
  /\ nreq = 0
  /\ InitCacheOff
  /\ InitQueryOff
  /\ InitExecOff

\* One more requests.get for the page the loops are at.
Requested ==
  /\ reqCount' = [reqCount EXCEPT ![<<coin, cursor>>] = @ + 1]
  /\ nreq' = nreq + 1

\* The retry loop has been left with cursor c: `if not cursor: break` ends
\* the asset (and the last asset ends the function); otherwise the while
\* loop goes round with c.
AfterRetryLoop(c) ==
  IF c = 0
  THEN IF coin = Len(known_option_assets)
       THEN pcFetch' = "returned" /\ coin' = coin /\ cursor' = 0 /\ attempt' = 0
       ELSE pcFetch' = pcFetch /\ coin' = coin + 1 /\ cursor' = 0 /\ attempt' = 0
  ELSE pcFetch' = pcFetch /\ coin' = coin /\ cursor' = c /\ attempt' = 0

\* requests.get or response.json() raises: the except branch.
FetchRaise ==
  /\ pcFetch = "request"
  /\ nreq < MaxRequests
  /\ Requested
  /\ IF attempt = retry_count - 1
     THEN AfterRetryLoop(cursor)
     ELSE attempt' = attempt + 1 /\ UNCHANGED << pcFetch, coin, cursor >>
  /\ UNCHANGED << all_tickers, mainVars, codecVars, cacheVars, queryVars,
                  execVars >>

\* The response has a non-zero retCode or an empty list: break.
FetchRefused ==
  /\ pcFetch = "request"
  /\ nreq < MaxRequests
  /\ Requested
  /\ AfterRetryLoop(cursor)
  /\ UNCHANGED << all_tickers, mainVars, codecVars, cacheVars, queryVars,
                  execVars >>

\* The response has a page: its symbols are added and cursor becomes the
\* page's nextPageCursor (0 on the asset's last page).
FetchPage ==
  /\ pcFetch = "request"
  /\ nreq < MaxRequests
  /\ Requested
  /\ all_tickers' = Append(all_tickers, <<coin, cursor>>)
  /\ \E next \in {0} \cup ({cursor + 1} \cap (1..(MaxPages - 1))) :
       AfterRetryLoop(next)
  /\ UNCHANGED << mainVars, codecVars, cacheVars, queryVars,
                  execVars >>

NextFetch ==
  \/ FetchRaise
  \/ FetchRefused
  \/ FetchPage

SpecFetch == InitFetch /\ [][NextFetch]_vars

(* ------------------------------------------------ the symbol cache alone *)
\* What save_cache(symbols) writes at time t.
SaveCache(symbols, t) ==
  Some([valid |-> TRUE, symbols |-> symbols, updated_at |-> t,
        expires_at |-> t + CacheDuration])

\* A file json.load or the field reads raise on.
CorruptFile ==
  Some([valid |-> FALSE, symbols |-> << >>, updated_at |-> 0, expires_at |-> 0])

\* load_cache() at time t: None without a file, on an exception and when
\* datetime.now() > expires_at; else the file's symbols.
LoadCacheAt(file, t) ==
  IF file = None THEN None
  ELSE IF ~file[1].valid THEN None
  ELSE IF t > file[1].expires_at THEN None
  ELSE Some(file[1].symbols)

InitCache ==
  /\ InitMain
  /\ InitCodecOff
  /\ InitFetchOff
  /\ cachePc = "on"
  /\ cacheFile \in {None, CorruptFile, SaveCache(<<S1, S2>>, 0)}
  /\ cacheNow = 0
  /\ loaded = None
  /\ gotSymbols = None
  /\ InitQueryOff
  /\ InitExecOff

\* load_cache() is called.
LoadCache ==
  /\ cachePc = "on"
  /\ loaded' = Some([at |-> cacheNow, result |-> LoadCacheAt(cacheFile, cacheNow)])
  /\ UNCHANGED << cachePc, cacheFile, cacheNow, gotSymbols, mainVars, codecVars,
                  fetchVars, queryVars,
                  execVars >>

\* get_symbols saving whatever the fetch returned.
GetSymbolsSaveAlways ==
  /\ cachePc = "on"
  /\ \E force \in BOOLEAN, fetched \in SymbolLists :
       LET cached == LoadCacheAt(cacheFile, cacheNow)
       IN IF ~force /\ cached # None /\ cached[1] # << >>
          THEN /\ gotSymbols' = Some([symbols |-> cached[1], source |-> "cache",
                                      force |-> force])
               /\ cacheFile' = cacheFile
          ELSE /\ gotSymbols' = Some([symbols |-> fetched, source |-> "api",
                                      force |-> force])
               /\ cacheFile' = SaveCache(fetched, cacheNow)
  /\ UNCHANGED << cachePc, cacheNow, loaded, mainVars, codecVars, fetchVars,
                  queryVars, execVars >>

\* get_symbols(force_refresh) is called; fetched is what fetch_from_api
\* returns if it is called.  The source and the flag of the call are kept
\* with the returned list for reference only.
GetSymbols ==
  /\ cachePc = "on"
  /\ \E force \in BOOLEAN, fetched \in SymbolLists :
       LET cached == LoadCacheAt(cacheFile, cacheNow)
       IN IF ~force /\ cached # None /\ cached[1] # << >>
          THEN /\ gotSymbols' = Some([symbols |-> cached[1], source |-> "cache",
                                      force |-> force])
               /\ cacheFile' = cacheFile
          ELSE /\ gotSymbols' = Some([symbols |-> fetched, source |-> "api",
                                      force |-> force])
               /\ cacheFile' = IF fetched # << >> THEN SaveCache(fetched, cacheNow)
                                ELSE cacheFile
  /\ UNCHANGED << cachePc, cacheNow, loaded, mainVars, codecVars, fetchVars,
                  queryVars, execVars >>

\* datetime.now() moves on.
CacheTick ==
  /\ cachePc = "on"
  /\ cacheNow < MaxCacheTime
  /\ cacheNow' = cacheNow + 1
  /\ UNCHANGED << cachePc, cacheFile, loaded, gotSymbols, mainVars, codecVars,
                  fetchVars, queryVars,
                  execVars >>

NextCache ==
  \/ LoadCache
  \/ GetSymbols
  \/ CacheTick

SpecCache == InitCache /\ [][NextCache]_vars

(* ------------------------------------------------- the Query Layer alone *)
\* Truthiness of what hmget or dict.get returned (None, or a string).
Truthy(v) == v # None /\ v[1] # ""

\* float(x) if x else 0: None when float() raises.
FloatOrZero(v) == IF Truthy(v) THEN ParseFloat(v[1]) ELSE Some(0)

\* The parts of a symbol the key patterns match on.
AssetOf(symbol) == IF symbol = S1 THEN "BTC" ELSE "ETH"
ExpiryOf(symbol) == "29NOV24"

\* The option:<symbol> keys of a store, and those matching option:<asset>-*
\* (option:* for asset None) and option:*-<expiry>-*.
KeysIn(st) == {sym \in AllSymbols : st[sym] # EmptyMap}
MatchAsset(st, asset) ==
  {sym \in KeysIn(st) : asset = None \/ AssetOf(sym) = asset[1]}
MatchExpiry(st, expiry) == {sym \in KeysIn(st) : ExpiryOf(sym) = expiry[1]}

\* Hashes the readers may find: none, a record of the optimized tracker, and
\* records another writer left with a value that is no number.
GoodHash ==
  ("ts" :> "1") @@ ("lp" :> "65000.0") @@ ("miv" :> "1.0") @@ ("v24" :> "120000.0")
BadPriceHash == ("ts" :> "1") @@ ("lp" :> "abc") @@ ("miv" :> "1.0")
BadIvHash == ("ts" :> "1") @@ ("lp" :> "64000.0") @@ ("miv" :> "abc")
QueryHashes == {EmptyMap, GoodHash, BadPriceHash, BadIvHash}

\* get_options_batch: hmget lp, miv, v24 of each symbol; a symbol with a
\* price gets an entry; a float() that raises ends the call.
BatchFields == << "lp", "miv", "v24" >>
BatchValues(h) == [i \in 1..3 |-> FloatOrZero(DictGet(h, BatchFields[i]))]
HasPrice(h) == Truthy(DictGet(h, "lp"))
BatchDecodes(h) == \A j \in 1..3 : BatchValues(h)[j] # None
GetOptionsBatch(st, symbols) ==
  IF \E i \in 1..Len(symbols) :
       HasPrice(st[symbols[i]]) /\ ~BatchDecodes(st[symbols[i]])
  THEN [raised |-> TRUE, value |-> EmptyMap]
  ELSE [raised |-> FALSE,
        value |-> [sym \in {symbols[i] : i \in {j \in 1..Len(symbols) :
                                                   HasPrice(st[symbols[j]])}} |->
                     [price |-> BatchValues(st[sym])[1][1],
                      iv |-> BatchValues(st[sym])[2][1],
                      volume |-> BatchValues(st[sym])[3][1]]]]

\* The fields get_all_options and get_expiry_options expand.
AllOptionsKeys == {"biv", "aiv", "lp", "mp", "miv", "oi", "v24", "t24"}
ExpiryOptionsKeys == {"lp", "miv", "oi", "v24"}
IdxOf(keys) == {i \in FieldIdx : KeyOf(i) \in keys}

\* Expanding one hash raises: int() of its ts, or float() of a field.
RecordRaises(h, keys, withTs) ==
  \/ withTs /\ GetInt(h, "ts") = None
  \/ \E i \in IdxOf(keys) : FloatOrZero(DictGet(h, KeyOf(i))) = None

\* The dict the scans build for one key.
OptionRecord(sym, h, keys, withTs) ==
  [n \in {"symbol"} \cup (IF withTs THEN {"timestamp"} ELSE {})
          \cup {NameOf(i) : i \in IdxOf(keys)} |->
     IF n = "symbol" THEN sym
     ELSE IF n = "timestamp" THEN GetInt(h, "ts")[1]
     ELSE LET i == CHOOSE j \in FieldIdx : NameOf(j) = n
          IN FloatOrZero(DictGet(h, KeyOf(i)))[1]]

\* The loop over zip(keys, results): keys whose hash is gone are skipped.
RecordsOf(st, keys, fields, withTs) ==
  {OptionRecord(sym, st[sym], fields, withTs) : sym \in keys \cap KeysIn(st)}
AnyRaises(st, keys, fields, withTs) ==
  \E sym \in keys \cap KeysIn(st) : RecordRaises(st[sym], fields, withTs)

\* get_all_options after its keys(): the except branch returns [].
GetAllOptionsRead(st, keys) ==
  IF AnyRaises(st, keys, AllOptionsKeys, TRUE)
  THEN [raised |-> FALSE, value |-> {}]
  ELSE [raised |-> FALSE, value |-> RecordsOf(st, keys, AllOptionsKeys, TRUE)]

\* get_expiry_options after its keys(): no try, the exception goes out.
GetExpiryOptionsRead(st, keys) ==
  IF AnyRaises(st, keys, ExpiryOptionsKeys, FALSE)
  THEN [raised |-> TRUE, value |-> {}]
  ELSE [raised |-> FALSE, value |-> RecordsOf(st, keys, ExpiryOptionsKeys, FALSE)]

\* The order SCAN walks the keyspace in.
ScanOrder == << S1, S2 >>
min_iv == 1

\* The signals scan_high_iv_opportunities makes of one page of keys, and
\* whether a float() of the page raises.
PageRaises(st, keys) ==
  \E sym \in keys \cap KeysIn(st) :
    /\ Truthy(DictGet(st[sym], "miv"))
    /\ \/ ParseFloat(st[sym]["miv"]) = None
       \/ /\ ParseFloat(st[sym]["miv"])[1] >= min_iv
          /\ \/ FloatOrZero(DictGet(st[sym], "lp")) = None
             \/ FloatOrZero(DictGet(st[sym], "v24")) = None
PageSignals(st, keys) ==
  {[symbol |-> sym, action |-> "SELL",
    price |-> FloatOrZero(DictGet(st[sym], "lp"))[1],
    iv |-> ParseFloat(st[sym]["miv"])[1],
    volume |-> FloatOrZero(DictGet(st[sym], "v24"))[1]] :
     sym \in {k \in keys \cap KeysIn(st) :
                /\ Truthy(DictGet(st[k], "miv"))
                /\ ParseFloat(st[k]["miv"])[1] >= min_iv}}

InitQuery ==
  /\ InitMain
  /\ InitCodecOff
  /\ InitFetchOff
  /\ InitCacheOff
  /\ qpc = "idle"
  /\ qOp = ""
  /\ qArg = None
  /\ qStore \in [AllSymbols -> QueryHashes]
  /\ qKeys = {}
  /\ qCursor = 0
  /\ qExamined = 0
  /\ qResult = None
  /\ qWrites = 0
  /\ InitExecOff

queryOthers == << mainVars, codecVars, fetchVars, cacheVars, execVars >>

\* get_options_batch(symbols): one pipeline of hmget commands.
QGetOptionsBatch ==
  /\ qpc = "idle"
  /\ \E symbols \in {<<S1>>, <<S1, S2>>, <<S2, S1>>} :
       /\ qArg' = Some(symbols)
       /\ qResult' = Some(GetOptionsBatch(qStore, symbols))
  /\ qOp' = "get_options_batch"
  /\ qpc' = "done"
  /\ UNCHANGED << qStore, qKeys, qCursor, qExamined, qWrites, queryOthers >>

\* get_all_options(asset): its keys(pattern) command, which walks the whole
\* keyspace.
QAllOptionsKeys ==
  /\ qpc = "idle"
  /\ \E asset \in {None, Some("BTC")} :
       /\ qArg' = asset
       /\ qKeys' = MatchAsset(qStore, asset)
  /\ qExamined' = Cardinality(KeysIn(qStore))
  /\ qOp' = "get_all_options"
  /\ qpc' = "keys"
  /\ UNCHANGED << qStore, qCursor, qResult, qWrites, queryOthers >>

\* get_all_options: the pipeline of hgetall commands and the expansion.
QAllOptionsRead ==
  /\ qpc = "keys"
  /\ qOp = "get_all_options"
  /\ qResult' = Some(GetAllOptionsRead(qStore, qKeys))
  /\ qpc' = "done"
  /\ UNCHANGED << qOp, qArg, qStore, qKeys, qCursor, qExamined, qWrites,
                  queryOthers >>

\* get_expiry_options(expiry_date): its keys(pattern) command.
QExpiryOptionsKeys ==
  /\ qpc = "idle"
  /\ \E expiry \in {Some("29NOV24"), Some("27DEC24")} :
       /\ qArg' = expiry
       /\ qKeys' = MatchExpiry(qStore, expiry)
  /\ qExamined' = Cardinality(KeysIn(qStore))
  /\ qOp' = "get_expiry_options"
  /\ qpc' = "keys"
  /\ UNCHANGED << qStore, qCursor, qResult, qWrites, queryOthers >>

\* get_expiry_options: the pipeline of hgetall commands and the expansion.
QExpiryOptionsRead ==
  /\ qpc = "keys"
  /\ qOp = "get_expiry_options"
  /\ qResult' = Some(GetExpiryOptionsRead(qStore, qKeys))
  /\ qpc' = "done"
  /\ UNCHANGED << qOp, qArg, qStore, qKeys, qCursor, qExamined, qWrites,
                  queryOthers >>

\* get_summary: one of its three keys("option:<asset>-*") commands, in the
\* order BTC, ETH, SOL; after the third the counts are returned.
QSummaryKeys ==
  /\ qpc \in {"idle", "summary"}
  /\ LET i == IF qpc = "idle" THEN 1 ELSE qCursor
         found == (IF qpc = "idle" THEN {} ELSE qKeys)
                    \cup MatchAsset(qStore, Some(known_option_assets[i]))
     IN /\ qKeys' = found
        /\ qExamined' = Cardinality(KeysIn(qStore))
        /\ IF i = Len(known_option_assets)
           THEN /\ qpc' = "done"
                /\ qCursor' = 0
                /\ qResult' =
                     Some([raised |-> FALSE,
                           value |-> [a \in {"BTC", "ETH", "SOL"} |->
                                        Cardinality({k \in found : AssetOf(k) = a})]])
           ELSE /\ qpc' = "summary"
                /\ qCursor' = i + 1
                /\ qResult' = qResult
  /\ qOp' = "get_summary"
  /\ UNCHANGED << qArg, qStore, qWrites, queryOthers >>

\* scan_high_iv_opportunities: one round of its loop, a scan(cursor,
\* count) command and the pipeline of hmget commands for the keys it
\* returned.
QScanStep ==
  /\ qpc \in {"idle", "scan"}
  /\ LET from == IF qpc = "idle" THEN 0 ELSE qCursor
         to == Min(from + ScanCount, Len(ScanOrder))
         keys == {ScanOrder[i] : i \in (from + 1)..to} \cap KeysIn(qStore)
         sofar == IF qpc = "idle" THEN {} ELSE qResult[1].value
     IN /\ qExamined' = to - from
        /\ qKeys' = (IF qpc = "idle" THEN {} ELSE qKeys) \cup keys
        /\ IF PageRaises(qStore, keys)
           THEN /\ qResult' = Some([raised |-> TRUE, value |-> {}])
                /\ qpc' = "done"
                /\ qCursor' = to
           ELSE /\ qResult' = Some([raised |-> FALSE,
                                     value |-> sofar \cup PageSignals(qStore, keys)])
                /\ qpc' = IF to = Len(ScanOrder) THEN "done" ELSE "scan"
                /\ qCursor' = IF to = Len(ScanOrder) THEN 0 ELSE to
  /\ qOp' = "scan_high_iv_opportunities"
  /\ UNCHANGED << qArg, qStore, qWrites, queryOthers >>

\* Another client writes a hash between two commands of the operation.
QWrite ==
  /\ qpc \in {"keys", "summary", "scan"}
  /\ qWrites < MaxQueryWrites
  /\ qWrites' = qWrites + 1
  /\ \E sym \in AllSymbols, h \in QueryHashes \ {EmptyMap} :
       qStore' = [qStore EXCEPT ![sym] = HSet(@, h)]
  /\ UNCHANGED << qpc, qOp, qArg, qKeys, qCursor, qExamined, qResult, queryOthers >>

NextQuery ==
  \/ QGetOptionsBatch
  \/ QAllOptionsKeys
  \/ QAllOptionsRead
  \/ QExpiryOptionsKeys
  \/ QExpiryOptionsRead
  \/ QSummaryKeys
  \/ QScanStep
  \/ QWrite

SpecQuery == InitQuery /\ [][NextQuery]_vars

(* --------------------------------------- the executor's get_option_cached *)
\* The validity test with a second of grace.
CacheExpiredLate(t, last) == t - last > cache_ttl + 1

\* current_time - self.last_cache_time > self.cache_ttl
CacheExpired(t, last) == t - last > cache_ttl

\* hmget lp, miv, v24, oi and the floats of the result; None for a float()
\* that raises.
CachedFields == << "lp", "miv", "v24", "oi" >>
CachedValues(h) == [i \in 1..4 |-> FloatOrZero(DictGet(h, CachedFields[i]))]
CachedDecodes(h) == \A j \in 1..4 : CachedValues(h)[j] # None
CachedResult(h) ==
  [price |-> CachedValues(h)[1][1], iv |-> CachedValues(h)[2][1],
   volume |-> CachedValues(h)[3][1], oi |-> CachedValues(h)[4][1]]

\* The clock of the executor starts beyond the TTL: time.time() is seconds
\* since the epoch and last_cache_time starts at 0.
ExecStart == cache_ttl + 1

InitExec ==
  /\ InitMain
  /\ InitCodecOff
  /\ InitFetchOff
  /\ InitCacheOff
  /\ InitQueryOff
  /\ xpc = "on"
  /\ xStore \in [AllSymbols -> QueryHashes]
  /\ cache = [s \in AllSymbols |-> None]
  /\ last_cache_time = 0
  /\ xNow = ExecStart
  /\ xRet = None
  /\ xWrites = 0

execOthers == << mainVars, codecVars, fetchVars, cacheVars, queryVars >>

\* get_option_cached(symbol).  A cache entry's `fetched` (the time of its
\* hmget) is kept for reference only: the program caches the result.
XGetOptionCached ==
  /\ xpc = "on"
  /\ \E symbol \in AllSymbols :
       LET expired == CacheExpired(xNow, last_cache_time)
           kept == IF expired THEN [s \in AllSymbols |-> None] ELSE cache
           h == xStore[symbol]
           call == [symbol |-> symbol, at |-> xNow]
       IN /\ last_cache_time' = IF expired THEN xNow ELSE last_cache_time
          /\ IF kept[symbol] # None
             THEN /\ cache' = kept
                  /\ xRet' = Some(call @@ [outcome |-> "hit",
                                            value |-> Some(kept[symbol][1].value),
                                            fetched |-> kept[symbol][1].fetched])
             ELSE IF ~HasPrice(h)
             THEN /\ cache' = kept
                  /\ xRet' = Some(call @@ [outcome |-> "miss", value |-> None,
                                            fetched |-> xNow])
             ELSE IF ~CachedDecodes(h)
             THEN /\ cache' = kept
                  /\ xRet' = Some(call @@ [outcome |-> "raised", value |-> None,
                                            fetched |-> xNow])
             ELSE /\ cache' = [kept EXCEPT ![symbol] =
                                 Some([value |-> CachedResult(h), fetched |-> xNow])]
                  /\ xRet' = Some(call @@ [outcome |-> "miss",
                                            value |-> Some(CachedResult(h)),
                                            fetched |-> xNow])
  /\ UNCHANGED << xpc, xStore, xNow, xWrites, execOthers >>

\* time.time() moves on.
XTick ==
  /\ xpc = "on"
  /\ xNow < MaxExecTime
  /\ xNow' = xNow + 1
  /\ UNCHANGED << xpc, xStore, cache, last_cache_time, xRet, xWrites, execOthers >>

\* The tracker writes a record, or the key of a symbol expires.
XWrite ==
  /\ xpc = "on"
  /\ xWrites < MaxQueryWrites
  /\ xWrites' = xWrites + 1
  /\ \E sym \in AllSymbols, h \in QueryHashes :
       xStore' = [xStore EXCEPT ![sym] = IF h = EmptyMap THEN h ELSE HSet(@, h)]
  /\ UNCHANGED << xpc, cache, last_cache_time, xNow, xRet, execOthers >>

NextExec ==
  \/ XGetOptionCached
  \/ XTick
  \/ XWrite

SpecExec == InitExec /\ [][NextExec]_vars

(* ================================================================ claims *)

\* C1: the queue never holds more than QueueCap items, and an append to a
\* full queue drops the oldest item and puts the new one at the tail.
ThmC1_BoundedDropOldest ==
  [][ /\ Len(batch_queue') <= QueueCap
      /\ (Len(enqLog') > Len(enqLog) /\ Len(batch_queue) = QueueCap)
           => /\ Len(batch_queue') = QueueCap
              /\ SubSeq(batch_queue', 1, QueueCap - 1) = Tail(batch_queue)
              /\ batch_queue'[QueueCap].n = enqLog'[Len(enqLog')]
              /\ Head(batch_queue).n \in evicted' ]_vars

\* An append has found the queue full and evicted an item.
WitC1_Evicted ==
  /\ evicted # {}
  /\ Len(batch_queue) = QueueCap

\* C2: as long as no append overflowed the queue, the items drained so far
\* followed by the items still queued are exactly the items appended, in
\* the order of their appends.
ThmC2_FifoDrain ==
  evicted = {} => drainLog \o IdSeq(batch_queue) = enqLog

\* Three items, none evicted, all drained by two ticks.
WitC2_AllDrained ==
  /\ evicted = {}
  /\ Len(enqLog) >= 3
  /\ drainLog = enqLog
  /\ batch_queue = << >>
  /\ stats.batches >= 1

\* C3: one tick takes exactly min(len(queue), batch_size) items from the
\* front and leaves the rest queued in their order.
ThmC3_TickTakesBatch ==
  [][ drainLog' # drainLog =>
        LET k == IF Len(batch_queue) <= batch_size THEN Len(batch_queue)
                 ELSE batch_size
        IN /\ Len(batch') = k
           /\ batch' = SubSeq(batch_queue, 1, k)
           /\ batch_queue' = SubSeq(batch_queue, k + 1, Len(batch_queue))
           /\ drainLog' = drainLog \o IdSeq(SubSeq(batch_queue, 1, k)) ]_vars

\* A tick has taken a full batch out of a longer queue.
WitC3_PartialDrain ==
  /\ fpc = "writing"
  /\ Len(batch) = batch_size
  /\ batch_queue # << >>
  /\ Len(enqLog) = Len(drainLog) + Len(batch_queue)
  /\ Len(drainLog) = batch_size

\* C4 (as claimed): after cleanup the queue is empty.
CexC4_CleanupDrains ==
  pc = "exited" => batch_queue = << >>

\* C5 (as claimed): once the counter has exceeded the ceiling no connect,
\* subscribe or reconnect follows and the manager does not go live.
CexC5_TerminatedAfterCeiling ==
  [][ ceilingHit =>
        /\ nconn' = nconn
        /\ subCalls' = subCalls
        /\ pc' \notin {"live", "connect", "reconnect"} ]_vars

\* C6: the subscribe calls issued on the current WebSocket are the chunks
\* of the whole tracked symbol set from the first chunk on, and a pass that
\* has returned on an open WebSocket has issued all of them.
ThmC6_FullResubscribe ==
  ws # 0 =>
    /\ active_symbols = tracked
    /\ UNION { SetOf(symbol_chunks[c]) : c \in 1..Len(symbol_chunks) } = tracked
    /\ Len(subCalls) <= Len(symbol_chunks)
    /\ \A c \in 1..Len(subCalls) : subCalls[c] = symbol_chunks[c]
    /\ (pc = "live" /\ ws \in open) => Len(subCalls) = Len(symbol_chunks)

\* A pass on a second or later WebSocket has returned.
WitC6_Resubscribed ==
  /\ nconn >= 2
  /\ pc = "live"
  /\ ws \in open
  /\ Len(symbol_chunks) >= 2
  /\ Len(subCalls) = Len(symbol_chunks)

\* C7: a failed execute() leaves the queue as it is, and the items of a
\* failed batch are never queued again nor part of a later batch.
ThmC7_FailedBatchDropped ==
  [][ /\ failed' # failed => (batch_queue' = batch_queue /\ batch' = << >>)
      /\ failed' \cap (written' \cup Ids(batch_queue') \cup Ids(batch')) = {} ]_vars

\* A tick failed and a later tick wrote later items.
WitC7_FailedThenWritten ==
  /\ \E f \in failed : \E w \in written : w > f
  /\ fpc = "idle"

\* The last item of a batch for each symbol.
LatestInBatch(i) ==
  \A j \in (i + 1)..Len(batch) : batch[j].symbol # batch[i].symbol

\* C8 (as claimed): after a successful write the stored hash of a symbol is
\* exactly the latest record written for it.
CexC8_WholesaleOverwrite ==
  [][ written' # written =>
        \A i \in 1..Len(batch) :
          LatestInBatch(i) => store'[batch[i].symbol] = batch[i].data ]_vars

\* What the reader is to return for a record: its values, and zero for the
\* fields it lacks.
Expected(rec) ==
  [n \in {"timestamp"} \cup {NameOf(i) : i \in FieldIdx} |->
     IF n = "timestamp" THEN rec["ts"]
     ELSE LET i == CHOOSE j \in FieldIdx : NameOf(j) = n
          IN IF KeyOf(i) \in DOMAIN rec THEN rec[KeyOf(i)] ELSE 0]

\* C9 (as claimed): right after a successful write, get_option of a symbol
\* returns the values of the latest record written for it and zero for the
\* fields that record lacks.
CexC9_ReadBackLatest ==
  [][ written' # written =>
        \A i \in 1..Len(batch) :
          LatestInBatch(i) =>
            GetOptionIn(store', batch[i].symbol) = Some(Expected(batch[i].rec)) ]_vars

\* C10 (as claimed): decoding the encoding gives back the record, and a
\* field the record lacks is absent from the decoded record.
CexC10_RoundTripAbsent ==
  cpc = "decoded" =>
    /\ cDec # None
    /\ cDec[1]["timestamp"] = cRec["ts"]
    /\ \A i \in FieldIdx :
         IF KeyOf(i) \in DOMAIN cRec
         THEN NameOf(i) \in DOMAIN cDec[1] /\ cDec[1][NameOf(i)] = cRec[KeyOf(i)]
         ELSE NameOf(i) \notin DOMAIN cDec[1]

\* C10 (amended): decoding the encoding gives back the value of every field
\* the record has, and zero for every field it lacks.
ThmC10_RoundTripZeroDefault ==
  cpc = "decoded" =>
    /\ cDec # None
    /\ DOMAIN cDec[1] = {"timestamp"} \cup {NameOf(i) : i \in FieldIdx}
    /\ cDec[1]["timestamp"] = cRec["ts"]
    /\ \A i \in FieldIdx :
         cDec[1][NameOf(i)] =
           IF KeyOf(i) \in DOMAIN cRec THEN cRec[KeyOf(i)] ELSE 0

\* A record with a last price and without a mark price has been decoded.
WitC10_Decoded ==
  /\ cpc = "decoded"
  /\ "lp" \in DOMAIN cRec
  /\ cRec["lp"] = 65000
  /\ "mp" \notin DOMAIN cRec
  /\ cDec # None

\* The inbound message has no usable value for field i: the field is absent
\* (or null), or its string is no number.
Unusable(i) ==
  WireOf(i) \notin DOMAIN cRaw \/ ParseFloat(cRaw[WireOf(i)]) = None

\* C11 (as claimed): in the hash of either tracker a field without a usable
\* value is omitted.
CexC11_OmittedByBothTrackers ==
  /\ cpc \in {"encoded", "decoded", "unified"} =>
       \A i \in FieldIdx : Unusable(i) => KeyOf(i) \notin DOMAIN cEnc
  /\ cpc = "unified" =>
       \A i \in FieldIdx : Unusable(i) => NameOf(i) \notin DOMAIN cUni

\* C11 (amended): the optimized tracker omits a field without a usable value
\* and writes every other field as its number; the unified tracker writes
\* every field, a field without a usable value as the empty string (never
\* as a zero).
ThmC11_OmittedOrEmpty ==
  /\ cpc \in {"encoded", "decoded", "unified"} =>
       \A i \in FieldIdx :
         IF Unusable(i) THEN KeyOf(i) \notin DOMAIN cEnc
         ELSE /\ KeyOf(i) \in DOMAIN cEnc
              /\ cEnc[KeyOf(i)] = FloatStr(ParseFloat(cRaw[WireOf(i)])[1])
  /\ cpc = "unified" =>
       /\ DOMAIN cUni = {"timestamp"} \cup {NameOf(i) : i \in FieldIdx}
       /\ \A i \in FieldIdx :
            cUni[NameOf(i)] =
              IF Unusable(i) THEN ""
              ELSE FloatStr(ParseFloat(cRaw[WireOf(i)])[1])

\* Both trackers have encoded a message with an empty mark price, a zero
\* last price and no volume.
WitC11_BothEncoded ==
  /\ cpc = "unified"
  /\ DOMAIN cRaw = {"lastPrice", "markPrice"}
  /\ cRaw["markPrice"] = ""
  /\ cRaw["lastPrice"] = "0"
  /\ cEnc["lp"] = "0.0"
  /\ "mp" \notin DOMAIN cEnc
  /\ cUni["mark_price"] = ""

ThmC13_PerSymbolOrder ==
  \A i, j \in 1..Len(writeLog) :
    (i < j /\ writeLog[i].symbol = writeLog[j].symbol)
      => writeLog[i].n < writeLog[j].n

\* Three records of one symbol have been written, by more than one tick.
WitC13_SameSymbolTwice ==
  /\ Len(writeLog) >= 3
  /\ \A i \in 1..Len(writeLog) : writeLog[i].symbol = S1
  /\ stats.batches >= 2

\* C14 (as claimed): a reconnect started by the liveness check of track()'s
\* loop increments ws_reconnect_count, as one started by a subscribe
\* exception does.
CexC14_LivenessReconnectCounted ==
  [][ (pc = "live" /\ pc' = "reconnect")
        => ws_reconnect_count' = ws_reconnect_count + 1 ]_vars

\* C15 (as claimed): a message the callback counts and does not enqueue
\* increases the error counter by one.
CexC15_MalformedCounted ==
  [][ (stats'.messages = stats.messages + 1 /\ enqLog' = enqLog)
        => (stats'.errors = stats.errors + 1 /\ batch_queue' = batch_queue) ]_vars

\* C16 (as claimed): a flush tick whose execute() raises increases the error
\* counter by one and leaves the batch and message counters as they are.
CexC16_FailedFlushCounted ==
  [][ nfail' = nfail + 1
        => /\ stats'.errors = stats.errors + 1
           /\ stats'.batches = stats.batches
           /\ stats'.messages = stats.messages ]_vars

\* C17 (as claimed): an append that evicts an item increases a counter, other
\* than the count of all messages, by one, and the callback returns.
CexC17_EvictionCounted ==
  [][ evicted' # evicted
        => /\ (stats'.errors = stats.errors + 1 \/ stats'.batches = stats.batches + 1)
           /\ pc' = pc ]_vars

ThmC19_NoStartWithoutStore ==
  /\ [](pc = "returned" /\ fpc = "none"
          => /\ store = LeftStore
             /\ storeStats = LeftStats
             /\ ws = 0
             /\ nconn = 0
             /\ subCalls = << >>
             /\ stats.batches = 0)
  /\ [][ (pc = "start" /\ fpc' = "none")
           => (pc' = "returned" /\ store' = store /\ storeStats' = storeStats) ]_vars
  /\ [][ pc = "returned" => pc' = "returned" ]_vars

\* track() has returned because init_redis failed.
WitC19_Refused ==
  /\ pc = "returned"
  /\ fpc = "none"
  /\ redis_client
  /\ store[S2] # EmptyMap

\* C20 (as claimed): no page is requested more than retry_count times, and
\* a request that fails on the last attempt, or is answered with a non-zero
\* retCode or an empty list, ends the enumeration of its asset.
CexC20_PageRequestsBounded ==
  /\ [](\A pg \in Pages : reqCount[pg] <= retry_count)
  /\ [][ (nreq' = nreq + 1 /\ all_tickers' = all_tickers
            /\ (attempt = retry_count - 1 \/ attempt' = 0))
           => (coin' # coin \/ pcFetch' = "returned") ]_vars

\* C21 (as claimed): load_cache returns the file's symbols when the time is
\* before expires_at, and None from expires_at on.
CexC21_StrictExpiry ==
  [][ (loaded' # loaded /\ cacheFile # None /\ cacheFile[1].valid)
        => loaded'[1].result =
             IF cacheNow < cacheFile[1].expires_at
             THEN Some(cacheFile[1].symbols) ELSE None ]_vars

\* C22 (as claimed): get_options_batch does not raise, and returns an entry
\* for every requested symbol whose price, IV and volume decode.
CexC22_BatchSkipsBadSymbol ==
  (qpc = "done" /\ qOp = "get_options_batch") =>
    /\ ~qResult[1].raised
    /\ \A i \in 1..Len(qArg[1]) :
         (HasPrice(qStore[qArg[1][i]]) /\ BatchDecodes(qStore[qArg[1][i]]))
           => qArg[1][i] \in DOMAIN qResult[1].value

\* C23 (as claimed): get_all_options and get_expiry_options do not raise,
\* and return a record for every enumerated key whose hash decodes.
CexC23_ScanSkipsBadRecord ==
  (qpc = "done" /\ qOp \in {"get_all_options", "get_expiry_options"}) =>
    /\ ~qResult[1].raised
    /\ \A sym \in qKeys \cap KeysIn(qStore) :
         ~RecordRaises(qStore[sym],
                       IF qOp = "get_all_options" THEN AllOptionsKeys
                       ELSE ExpiryOptionsKeys,
                       qOp = "get_all_options")
           => \E r \in qResult[1].value : r["symbol"] = sym

\* C24 (as claimed): no enumeration command of a Query Layer operation
\* walks more than one page of the keyspace.
CexC24_IncrementalScans ==
  qExamined <= ScanCount

\* The stored keys of the schema the reader expands.
StoredKeys == {"ts"} \cup {KeyOf(i) : i \in FieldIdx}

\* The record get_option returns for a hash without any stored key.
AllZero ==
  [n \in {"timestamp"} \cup {NameOf(i) : i \in FieldIdx} |-> 0]

\* C25 (as claimed): the hash of either tracker has only the stored keys of
\* the schema, and get_option decodes it to the values written.
CexC25_BothTrackersAbbreviated ==
  cpc = "unified" =>
    /\ DOMAIN cEnc \subseteq StoredKeys
    /\ DOMAIN cUni \subseteq StoredKeys
    /\ \A i \in FieldIdx :
         ~Unusable(i) =>
           /\ cDec[1][NameOf(i)] = ParseFloat(cRaw[WireOf(i)])[1]
           /\ DecodeHash(cUni)[1][NameOf(i)] = ParseFloat(cRaw[WireOf(i)])[1]

\* C25 (amended): the hash of the optimized tracker has only stored keys of
\* the schema, ts among them, and get_option decodes it to the values
\* written; the hash of the unified tracker has the long names and none of
\* the stored keys, and get_option decodes it to zeros.
ThmC25_OptimizedAbbreviated ==
  /\ cpc \in {"encoded", "decoded", "unified"} =>
       /\ DOMAIN cEnc \subseteq StoredKeys
       /\ "ts" \in DOMAIN cEnc
  /\ cpc \in {"decoded", "unified"} =>
       /\ cDec # None
       /\ cDec[1]["timestamp"] = cTs
       /\ \A i \in FieldIdx :
            ~Unusable(i) => cDec[1][NameOf(i)] = ParseFloat(cRaw[WireOf(i)])[1]
  /\ cpc = "unified" =>
       /\ DOMAIN cUni = {"timestamp"} \cup {NameOf(i) : i \in FieldIdx}
       /\ DOMAIN cUni \cap StoredKeys = {}
       /\ DecodeHash(cUni) = Some(AllZero)

\* A last price of 65000 has been written by both trackers: the reader gets
\* it back from the optimized tracker's hash and zero from the other.
WitC25_FullNamesReadAsZero ==
  /\ cpc = "unified"
  /\ "lp" \in DOMAIN cEnc
  /\ cEnc["lp"] = "65000.0"
  /\ cDec[1]["last_price"] = 65000
  /\ cUni["last_price"] = "65000.0"
  /\ DecodeHash(cUni)[1]["last_price"] = 0

CexC27_BackoffOnly ==
  [][ (pc = "reconnect" /\ pc' = "connect")
        => /\ slept' = BackoffDelay(ws_reconnect_count)
           /\ slept' <= max_delay ]_vars

\* C28 (as claimed): the counter is reset, and the pass returns as
\* successful, only at the end of a pass whose every subscribe call
\* succeeded on the current WebSocket.
CexC28_ResetOnlyAfterCleanPass ==
  [][ ((pc = "subscribing" /\ pc' = "live")
         \/ ws_reconnect_count' < ws_reconnect_count)
        => /\ pc = "subscribing"
           /\ ci > Len(symbol_chunks)
           /\ subscribed = active_symbols ]_vars

CexC30_StoreOnlyFlushAndShutdown ==
  /\ [][ stats'.messages # stats.messages
           => (store' = store /\ storeStats' = storeStats) ]_vars
  /\ [][ ((store' # store \/ storeStats' # storeStats) /\ now' = now)
           => (fpc = "writing" \/ pc = "interrupted") ]_vars

\* C30 (amended): a step of the callback changes the message and error
\* counters and appends at most one item to the queue; it leaves the store,
\* the keys' expiry and the server's command log as they are.  The program
\* changes the store only in track()'s clear_database at startup, in a flush
\* tick's write or in cleanup().
ThmC30_CallbackLeavesStore ==
  /\ [][ stats'.messages # stats.messages
           => /\ store' = store
              /\ storeStats' = storeStats
              /\ expires' = expires
              /\ writeLog' = writeLog
              /\ stats'.messages = stats.messages + 1
              /\ stats'.batches = stats.batches
              /\ Len(enqLog') <= Len(enqLog) + 1
              /\ batch_queue' # batch_queue => Len(enqLog') = Len(enqLog) + 1
              /\ batch' = batch
              /\ pc' = pc /\ fpc' = fpc ]_vars
  /\ [][ ((store' # store \/ storeStats' # storeStats) /\ now' = now)
           => (pc = "start" \/ fpc = "writing" \/ pc = "interrupted") ]_vars

\* Startup has cleared the store, the callback has queued two records, and
\* no flush has run: the store has no key.
WitC30_QueuedNotStored ==
  /\ LeftStore # InitNoKeys
  /\ store = InitNoKeys
  /\ storeStats = [messages |-> 0, batches |-> 0, shutdown |-> FALSE]
  /\ Len(batch_queue) = 2
  /\ stats.messages >= 2
  /\ writeLog = << >>
  /\ stats.batches = 0

\* C31: of two hset commands the server has run for one symbol, the later
\* one carries a ts that is not below the earlier one's, and the ts a stored
\* hash has is the ts of the last hset run for its symbol.
ThmC31_TsNonDecreasing ==
  /\ \A i, j \in 1..Len(writeLog) :
       (i < j /\ writeLog[i].symbol = writeLog[j].symbol)
         => ParseInt(writeLog[i].ts)[1] <= ParseInt(writeLog[j].ts)[1]
  /\ \A s \in AllSymbols :
       (store[s] # EmptyMap /\ \E i \in 1..Len(writeLog) : writeLog[i].symbol = s)
         => LET last == CHOOSE i \in 1..Len(writeLog) :
                          /\ writeLog[i].symbol = s
                          /\ \A j \in (i + 1)..Len(writeLog) : writeLog[j].symbol # s
            IN store[s]["ts"] = writeLog[last].ts

\* Two ticks have written one symbol, the second with a later ts.
WitC31_LaterTsWritten ==
  /\ Len(writeLog) = 2
  /\ writeLog[1].symbol = S1 /\ writeLog[2].symbol = S1
  /\ writeLog[1].ts = "0" /\ writeLog[2].ts = "1"
  /\ stats.batches = 2
  /\ store[S1] # EmptyMap
  /\ store[S1]["ts"] = "1"

\* The ids a log holds.
LogIds(log) == { log[i] : i \in 1..Len(log) }

\* C32: the items enqueued so far are the pending, the evicted and the
\* drained ones, each in one of the three; every drained item is in the
\* batch in flight, in one written batch or in one failed batch, and in one
\* of them only; no item is popped twice, and the server has run at most one
\* hset for an item, for an item of a batch that was executed.
ThmC32_Conservation ==
  /\ Len(enqLog) = Len(batch_queue) + Cardinality(evicted) + Len(drainLog)
  /\ LogIds(enqLog) = Ids(batch_queue) \cup evicted \cup LogIds(drainLog)
  /\ Cardinality(LogIds(enqLog)) = Len(enqLog)
  /\ Cardinality(LogIds(drainLog)) = Len(drainLog)
  /\ LogIds(drainLog) = written \cup failed \cup Ids(batch)
  /\ written \cap failed = {}
  /\ written \cap Ids(batch) = {}
  /\ failed \cap Ids(batch) = {}
  /\ Len(drainLog) = Cardinality(written) + Cardinality(failed) + Len(batch)
  /\ \A i, j \in 1..Len(writeLog) : writeLog[i].n = writeLog[j].n => i = j
  /\ \A i \in 1..Len(writeLog) : writeLog[i].n \in written \cup failed

\* One batch has failed, a later one has been written, and an item is
\* still pending.
WitC32_FailedWrittenPending ==
  /\ failed # {}
  /\ written # {}
  /\ batch_queue # << >>
  /\ fpc = "idle"
  /\ Len(enqLog) = 3

\* track() and main() have stopped the program.
Stopped == pc \in {"returned", "crashed", "interrupted", "exited"}

\* C33: a tick whose execute() raised leaves the flush task at the top of
\* its loop; and once the store fails no more and no more messages come, no
\* further item is dropped or evicted, and the queue and the batch in flight
\* eventually are empty with every item that was not dropped or evicted
\* before written, unless the program is stopped.
ThmC33_FlushTaskSurvives ==
  /\ [][ nfail' = nfail + 1 => (fpc = "writing" /\ fpc' = "idle") ]_vars
  /\ [][ (nfail = env.faults /\ stats.messages = env.msgs)
           => (failed' = failed /\ evicted' = evicted /\ enqLog' = enqLog) ]_vars
  /\ (nfail = env.faults /\ stats.messages = env.msgs)
       ~> \/ Stopped
          \/ /\ batch_queue = << >>
             /\ batch = << >>
             /\ LogIds(enqLog) = written \cup failed \cup evicted

\* A tick failed, every message has come, and all that was queued after
\* the failure has been written.
WitC33_WrittenAfterFailure ==
  /\ nfail = 1
  /\ failed # {}
  /\ stats.messages = env.msgs
  /\ batch_queue = << >>
  /\ batch = << >>
  /\ written # {}
  /\ \E f \in failed : \E w \in written : f < w
  /\ ~Stopped

\* C34: the step of the flush task that follows a tick's finding the queue
\* empty runs no command on the store (no hset, no expire, no stats
\* increment), leaves the batches counter, the queue and the batch as they
\* are, and ends the tick; and no write is ever started with an empty batch.
ThmC34_EmptyTickNoStoreCommand ==
  /\ [][ (fpc = "draining" /\ batch_queue = << >> /\ fpc' # fpc)
           => /\ fpc' = "idle"
              /\ store' = store
              /\ storeStats' = storeStats
              /\ expires' = expires
              /\ writeLog' = writeLog
              /\ stats' = stats
              /\ batch_queue' = batch_queue
              /\ batch' = << >>
              /\ drainLog' = drainLog
              /\ batch_lock' = "free" ]_vars
  /\ [](fpc = "writing" => batch # << >>)

\* After a written batch a tick has begun and finds the queue empty.
WitC34_TickOnEmptyQueue ==
  /\ fpc = "draining"
  /\ batch_queue = << >>
  /\ batch = << >>
  /\ stats.batches = 1
  /\ Len(writeLog) = 2
  /\ storeStats.batches = 1

\* C35: the subscribe_symbols calls that have not returned are never more
\* than ws_max_reconnect_attempts, a pass never makes more subscribe calls
\* than it has chunks, and a subscribe_symbols call that has been made
\* leads back to track()'s loop, with no call left open, unless the program
\* is stopped.
ThmC35_SubscribeReturns ==
  /\ [](depth <= ws_max_reconnect_attempts)
  /\ [](Len(subCalls) <= Len(symbol_chunks))
  /\ [](pc = "live" => depth = 0)
  /\ [][ depth' > depth
           => (depth' = depth + 1
               /\ (depth > 0 => ws_reconnect_count < ws_max_reconnect_attempts)) ]_vars
  /\ (pc \in {"connect", "subscribing", "reconnect"}) ~> (pc = "live" \/ Stopped)

\* Every subscribe call of every pass raised, the nesting went as deep as
\* the ceiling, and subscribe_symbols has returned to track()'s loop.
WitC35_ReturnedAfterAllRaised ==
  /\ pc = "live"
  /\ depth = 0
  /\ nconn = ws_max_reconnect_attempts
  /\ subscribed = {}
  /\ Len(symbol_chunks) = 2
  /\ Len(subCalls) = 2
  /\ ceilingHit

\* track() is inside subscribe_symbols or reconnect_websocket.
InSubscription == pc \in {"connect", "subscribing", "reconnect"}

\* C36: while track() is inside reconnect_websocket or subscribe_symbols the
\* flush task is at its sleep, with no batch and without the lock, and no
\* step pops an item, runs a store command of the flush or counts a batch;
\* an append of the callback in that interval is not held up, and evicts
\* when the queue is full.
ThmC36_NoFlushDuringReconnect ==
  /\ [](InSubscription
          => (fpc = "idle" /\ batch = << >> /\ batch_lock = "free"))
  /\ [][ InSubscription
           => /\ drainLog' = drainLog
              /\ writeLog' = writeLog
              /\ storeStats' = storeStats
              /\ stats'.batches = stats.batches
              /\ batch' = batch ]_vars
  /\ [][ (InSubscription /\ enqLog' # enqLog)
           => /\ pc' = pc
              /\ fpc' = fpc
              /\ Len(batch_queue) = QueueCap => evicted' # evicted ]_vars

\* The second chunk's subscribe call raised; during the sleep before the
\* reconnect the first chunk's messages have filled the queue and the last
\* one has evicted an item, and no tick has run.
WitC36_EvictedDuringReconnect ==
  /\ pc = "reconnect"
  /\ evictedAt = "reconnect"
  /\ evicted # {}
  /\ Len(batch_queue) = QueueCap
  /\ drainLog = << >>
  /\ fpc = "idle"

\* C37: no two WebSocket objects are open at once, the open one is
\* self.ws, and a WebSocket is constructed only when none is open: at the
\* first subscription, or after reconnect_websocket has exited the one
\* before.
ThmC37_OneConnection ==
  /\ [](Cardinality(open) <= 1)
  /\ [](open \subseteq {ws})
  /\ [](alive \subseteq open)
  /\ [][ nconn' # nconn
           => /\ open = {}
              /\ open' = {nconn'}
              /\ ws' = nconn'
              /\ (ws = 0 \/ pc = "connect") ]_vars

\* The third WebSocket is open, the two before it have been exited.
WitC37_ThirdConnectionAlone ==
  /\ nconn = 3
  /\ ws = 3
  /\ open = {3}
  /\ pc = "live"

\* C38: a hit returns a value fetched from the store at most cache_ttl
\* before the call; a call made more than cache_ttl after the last reset
\* leaves in the cache nothing but what it fetches itself and makes its own
\* time the time of the last reset; an entry enters the cache only by a
\* call that found a price for its symbol, as the decoded result of that
\* call, and a call that found no price leaves the cache without an entry
\* for its symbol.
ThmC38_NoStaleHit ==
  /\ [](xRet # None /\ xRet[1].outcome = "hit"
          => (xRet[1].value # None /\ xRet[1].at - xRet[1].fetched <= cache_ttl))
  /\ [](\A s \in AllSymbols :
          cache[s] # None => (last_cache_time <= cache[s][1].fetched
                              /\ cache[s][1].fetched <= xNow))
  /\ [][ ((cache' # cache \/ xRet' # xRet) /\ xNow - last_cache_time > cache_ttl)
           => /\ last_cache_time' = xNow
              /\ \A s \in AllSymbols :
                   cache'[s] # None => cache'[s][1].fetched = xNow ]_vars
  /\ [][ \A s \in AllSymbols :
           (cache'[s] # cache[s] /\ cache'[s] # None)
             => /\ HasPrice(xStore[s])
                /\ cache'[s][1].value = CachedResult(xStore[s])
                /\ cache'[s][1].fetched = xNow ]_vars
  /\ [](xRet # None /\ xRet[1].outcome = "miss" /\ xRet[1].value = None
          /\ xRet[1].at = xNow /\ last_cache_time <= xRet[1].at
          => (cache[xRet[1].symbol] = None
              \/ cache[xRet[1].symbol][1].fetched >= xRet[1].at))

\* A hit has returned a value fetched cache_ttl before, which the store no
\* longer holds.
WitC38_HitAtTtl ==
  /\ xRet # None
  /\ xRet[1].outcome = "hit"
  /\ xRet[1].at - xRet[1].fetched = cache_ttl
  /\ xStore[xRet[1].symbol] = EmptyMap

\* C39: the cache file changes only in a get_symbols call whose fetch
\* returned at least one symbol, to that list, and a readable file never
\* holds an empty list; a call with force_refresh returns what the API
\* gave; a call without it returns the file's symbols when load_cache
\* yields a non-empty list, and queries the API only otherwise.
ThmC39_CacheNeverEmptied ==
  /\ [](cacheFile # None /\ cacheFile[1].valid => cacheFile[1].symbols # << >>)
  /\ [][ cacheFile' # cacheFile
           => /\ gotSymbols' # None
              /\ gotSymbols'[1].source = "api"
              /\ gotSymbols'[1].symbols # << >>
              /\ cacheFile' = SaveCache(gotSymbols'[1].symbols, cacheNow) ]_vars
  /\ [][ gotSymbols' # gotSymbols
           => LET cached == LoadCacheAt(cacheFile, cacheNow)
                  got == gotSymbols'[1]
              IN /\ got.force => got.source = "api"
                 /\ (~got.force /\ got.source = "api")
                      => (cached = None \/ cached[1] = << >>)
                 /\ got.source = "cache"
                      => (cached # None /\ got.symbols = cached[1]
                          /\ cacheFile' = cacheFile) ]_vars

\* A forced refresh has fetched nothing: it returned the empty list and the
\* file, still valid, holds its symbols.
WitC39_EmptyFetchKeepsFile ==
  /\ gotSymbols # None
  /\ gotSymbols[1].force
  /\ gotSymbols[1].source = "api"
  /\ gotSymbols[1].symbols = << >>
  /\ LoadCacheAt(cacheFile, cacheNow) = Some(<< S1, S2 >>)

====
